---- MODULE Spec2Model ----
(***************************************************************************)
(* Discrete-time railway dispatch simulator (backend/simulation/simulator.py*)
(* and the lifecycle endpoints of backend/main.py).                        *)
(*                                                                         *)
(* Time is an integer number of half seconds counted from the sim_time     *)
(* that reset() reads from the wall clock.  simulation_speed is kept in    *)
(* tenths, so one tick of base_tick_sec * simulation_speed seconds is an   *)
(* integer number of half seconds for every speed in [0.1, 10.0] that has  *)
(* one decimal.                                                            *)
(***************************************************************************)
EXTENDS Integers, Sequences, FiniteSets, TLC

VARIABLES
    status,              \* SimulationStatus: "IDLE" | "RUNNING" | "COMPLETED"
    completed,           \* self.completed
    completion_emitted,  \* self._completion_emitted
    sim_time,            \* self.sim_time, half seconds since reset()
    tick_count,          \* self.tick_count
    moved_this_tick,     \* self._moved_this_tick
    idle_ticks,          \* self._idle_ticks
    headway_sec,         \* self.headway_sec (seconds)
    dwell_sec,           \* self.dwell_sec (seconds)
    energy_stop_penalty, \* self.energy_stop_penalty (tenths)
    simulation_speed,    \* self.simulation_speed (tenths)
    event_counter,       \* self.event_counter
    blocks,              \* self.blocks: id -> [occupied_by, issue, issue_since, last_exit_time]
    trains,              \* self.trains: id -> dynamic fields of Train
    active_plan,         \* self.active_plan: <<>> (None) or <<holds>>
    holds_index,         \* self.holds_index: <<train_id, block_id>> -> deadline
    sim_task,            \* app.state.sim_task refers to a live stepping loop
    http_code,           \* status code of the last lifecycle request (0: none yet)
    last_op,             \* history: the operation that was just called
    returned,            \* history: what that call returned (events) or "error"
    run_log,             \* history of the current run (since the last reset())
    ops,                 \* number of control calls made so far
    plan_obj,            \* a Plan object p: its holds
    merges,              \* the plans returned by p.merged(), p.merged().merged(), ...
    runs,                \* the two run_to_completion() calls of a paired A/B run
    twins,               \* two RailwaySimulator instances driven by the same calls
    opt,                 \* the last call of the dispatch optimizer: input and output
    served,              \* history of the batch endpoints: snapshots built, runs made
    aio                  \* the event loop of main.py: loop tasks, requests in flight

\* the simulator, its transport and their history
sim_vars == <<status, completed, completion_emitted, sim_time, tick_count,
              moved_this_tick, idle_ticks, headway_sec, dwell_sec,
              energy_stop_penalty, simulation_speed, event_counter, blocks,
              trains, active_plan, holds_index, sim_task, http_code, last_op,
              returned, run_log, ops>>

\* values outside the live simulator: a Plan and the results of merged(),
\* the isolated simulators of the batch runs, and the optimizer
plan_vars == <<plan_obj, merges, runs, twins, opt, served, aio>>

vars == <<sim_vars, plan_vars>>

None == "None"

-----------------------------------------------------------------------------
(* Bounds of the model *)

\* step() is explored up to this tick count in Spec
MaxTicks == 4
\* control calls (anything but step()) explored in Spec
MaxOps == 2
\* control calls explored in SpecFuse, made while the run has ticked at most
\* OpWindow times or while the engine is not RUNNING
FuseOps == 1
OpWindow == 0
\* the longest Plan given to merged(), and the number of successive merged()
\* calls made on it
MaxHolds == 3
MaxMerges == 2
MaxRequests == 3

-----------------------------------------------------------------------------
(* Program constants *)

base_tick_sec == 5
idle_limit == 200
max_block_travel_sec == 45
InitialSpeedTenths == 10
MinSpeedTenths == 1
MaxSpeedTenths == 100

\* seconds -> half seconds
Sec(s) == 2 * s

Min(a, b) == IF a < b THEN a ELSE b
Max(a, b) == IF a > b THEN a ELSE b

-----------------------------------------------------------------------------
(* Topology: the content of topology.json read by reset() *)

BlockIds == {"B1", "B2", "B3", "B4", "B5", "B6", "B7", "B8", "B9", "B10", "B11"}

\* station_id of the block is set
StationBlocks == {"B1", "B4", "B7"}

IsStation(b) == b \in StationBlocks

\* length_km, in metres
LengthM(b) ==
    CASE b = "B2" -> 1000
      [] b = "B3" -> 100
      [] b = "B5" -> 250
      [] b = "B6" -> 0
      [] b = "B8" -> 500
      [] b = "B9" -> 200
      [] b = "B10" -> 2000
      [] OTHER -> 1000

\* max_speed_kmh
MaxSpeedKmh(b) ==
    CASE b = "B2" -> 120
      [] b = "B9" -> 40
      [] b = "B10" -> 80
      [] OTHER -> 60

\* default_headway_sec and default_dwell_sec of the topology
TopologyHeadwaySec == 10
TopologyDwellSec == 10

\* default_speed_kmh of the topology
TopologyDefaultSpeedKmh == 80

-----------------------------------------------------------------------------
(* The roster of _initialize_trains *)

TrainOrder == <<"T1", "T2", "T3", "T4", "T5", "T6", "T7", "T8">>

TrainIds == {TrainOrder[i] : i \in 1..Len(TrainOrder)}

Route(t) ==
    CASE t = "T1" -> <<"B1", "B2", "B3", "B4", "B5", "B6", "B7">>
      [] t = "T2" -> <<"B7", "B6", "B5", "B4", "B3", "B2", "B1">>
      [] t = "T3" -> <<"B1", "B2", "B8", "B9", "B6", "B7">>
      [] t = "T4" -> <<"B3", "B4", "B5", "B10">>
      [] t = "T5" -> <<"B6", "B9", "B8", "B2", "B1">>
      [] t = "T6" -> <<"B1", "B2", "B3", "B11">>
      [] t = "T7" -> <<"B10", "B5", "B4", "B3", "B2", "B1">>
      [] t = "T8" -> <<"B7", "B6", "B5", "B4", "B3", "B2", "B1">>

Priority(t) ==
    CASE t \in {"T1", "T3", "T6"} -> "EXPRESS"
      [] t \in {"T2", "T5", "T8"} -> "REGIONAL"
      [] OTHER -> "FREIGHT"

\* route[i] with the code's 0-based index
RouteAt(t, i) == Route(t)[i + 1]

LastIndex(t) == Len(Route(t)) - 1

_priority_speed(pr) ==
    IF pr = "EXPRESS" THEN 100
    ELSE IF pr = "REGIONAL" THEN 70
    ELSE 60

SpeedKmh(t) == _priority_speed(Priority(t))

-----------------------------------------------------------------------------
(* The draws of the per-instance RNG in one reset(): for each train of the *)
(* roster, randint(0, 40) then randint(0, 2).  Draws42, Draws7 and Draws43 *)
(* are what random.Random(42), random.Random(7) and random.Random(43) give *)
(* on their first reset; DrawsOther stands for an unseeded instance.       *)

Draws42 ==
    << <<40, 0>>, <<1, 2>>, <<17, 0>>, <<14, 0>>, <<6, 2>>, <<34, 0>>, <<37, 1>>, <<2, 0>> >>

Draws7 ==
    << <<20, 0>>, <<25, 2>>, <<3, 0>>, <<34, 0>>, <<23, 2>>, <<3, 2>>, <<13, 0>>, <<5, 1>> >>

DrawsOther ==
    << <<40, 2>>, <<40, 0>>, <<40, 1>>, <<0, 0>>, <<40, 2>>, <<0, 0>>, <<40, 0>>, <<40, 1>> >>

Draws43 ==
    << <<2, 1>>, <<9, 1>>, <<23, 2>>, <<6, 1>>, <<38, 1>>, <<38, 0>>, <<32, 1>>, <<36, 1>> >>

RngDraws == {Draws42, Draws7, DrawsOther}

-----------------------------------------------------------------------------
(* Helpers of the simulator *)

\* _block_travel_seconds, in half seconds: length_km / speed * 3600 clamped
\* to [1, max_block_travel_sec]
_block_travel_seconds(t, b) ==
    IF IsStation(b) THEN 0
    ELSE LET speed == Min(SpeedKmh(t), Max(MaxSpeedKmh(b), 1))
             travel == (LengthM(b) * 36) \div (speed * 5)
         IN  Max(Sec(1), Min(travel, Sec(max_block_travel_sec)))

\* _compute_will_exit with the dwell_sec in force
_compute_will_exit(t, b, enter, dwell) ==
    IF IsStation(b) THEN enter + Sec(dwell)
    ELSE enter + _block_travel_seconds(t, b)

\* mutant of TickUnits: the speed multiplier left out
TickUnitsAtUnitSpeed(speed) == Sec(base_tick_sec)

\* one tick of sim time: base_tick_sec * simulation_speed
TickUnits(speed) == (Sec(base_tick_sec) * speed) \div 10

\* an Optional[datetime]: <<>> when absent, <<t>> when set
Absent == <<>>
At(t) == <<t>>
IsSet(x) == x # <<>>
ValueOf(x) == x[1]

\* mutant of NextBlockAt: the block at the index itself
NextBlockAtIndex(t, i) == RouteAt(t, i)

\* route[i + 1] if i < len(route) - 1 else None
NextBlockAt(t, i) ==
    IF i < LastIndex(t) THEN RouteAt(t, i + 1) ELSE None

FreshBlock == [occupied_by |-> None, issue |-> None, issue_since |-> Absent,
               last_exit_time |-> Absent]

\* mutant of StartIndex: every train placed at the head of its route
StartIndexZero(bl, t) == 0

\* the first index of the route whose block is free, else 0
StartIndex(bl, t) ==
    LET free == {i \in 0..LastIndex(t) : bl[RouteAt(t, i)].occupied_by = None}
    IN  IF free = {} THEN 0
        ELSE CHOOSE i \in free : \A j \in free : i <= j

NewTrain(bl, t, draw, now, dwell) ==
    LET start_index == StartIndex(bl, t)
        start_block == RouteAt(t, start_index)
        entered == now - Sec(draw[1])
    IN  [route_index |-> start_index,
         current_block |-> start_block,
         next_block |-> NextBlockAt(t, start_index),
         delay_minutes |-> draw[2],
         dwell_remaining |-> 0,
         entered_block_at |-> entered,
         will_exit_at |-> _compute_will_exit(t, start_block, entered, dwell),
         waiting_sec |-> 0]

\* _initialize_trains: the roster placed in order; s = [blocks, trains]
RECURSIVE _initialize_trains(_, _, _, _, _)
_initialize_trains(s, i, draws, now, dwell) ==
    IF i > Len(TrainOrder) THEN s
    ELSE LET t == TrainOrder[i]
             tr == NewTrain(s.blocks, t, draws[i], now, dwell)
         IN  _initialize_trains(
                 [blocks |-> [s.blocks EXCEPT ![tr.current_block].occupied_by = t],
                  trains |-> [s.trains EXCEPT ![t] = tr]],
                 i + 1, draws, now, dwell)

NoTrain == [route_index |-> 0, current_block |-> None, next_block |-> None,
            delay_minutes |-> 0, dwell_remaining |-> 0, entered_block_at |-> 0,
            will_exit_at |-> 0, waiting_sec |-> 0]

AfterReset(draws) ==
    _initialize_trains([blocks |-> [b \in BlockIds |-> FreshBlock],
                        trains |-> [t \in TrainIds |-> NoTrain]],
                       1, draws, 0, TopologyDwellSec)

\* the history of a run that reset() has just set up: the exits and entries
\* made, the completion events returned, the ticks without a move, per train
\* the half seconds it was refused at a gate (waited) and the minutes of delay
\* it was given by _initialize_trains and inject_delay (given), and the
\* number of apply_plan calls (applied)
EmptyLog(tr) ==
    [exits |-> {}, entries |-> {}, completions |-> 0, no_move_ticks |-> 0,
     waited |-> [t \in TrainIds |-> 0],
     given |-> [t \in TrainIds |-> tr[t].delay_minutes],
     applied |-> 0]

-----------------------------------------------------------------------------
(* step() *)

\* _create_event: the counter is bumped and stamped into the event id
_create_event(ctr, kind, train_id, block_id, now) ==
    [event_kind |-> kind, train_id |-> train_id, block_id |-> block_id,
     timestamp |-> now, event_id |-> <<now, ctr + 1>>]

\* mutants of _can_enter_next_block: one of its three checks left out
CanEnterIgnoringOccupancy(bl, b, now, headway) ==
    LET nxt == bl[b]
    IN  IF nxt.issue # None THEN FALSE
        ELSE IF IsSet(nxt.last_exit_time)
                /\ now - ValueOf(nxt.last_exit_time) < Sec(headway) THEN FALSE
        ELSE TRUE

CanEnterIgnoringIssue(bl, b, now, headway) ==
    LET nxt == bl[b]
    IN  IF nxt.occupied_by # None THEN FALSE
        ELSE IF IsSet(nxt.last_exit_time)
                /\ now - ValueOf(nxt.last_exit_time) < Sec(headway) THEN FALSE
        ELSE TRUE

CanEnterIgnoringHeadway(bl, b, now, headway) ==
    LET nxt == bl[b]
    IN  IF nxt.occupied_by # None \/ nxt.issue # None THEN FALSE
        ELSE TRUE

\* mutant of _can_enter_next_block: a block that was ever left is refused
CanEnterNeverVacated(bl, b, now, headway) ==
    LET nxt == bl[b]
    IN  IF nxt.occupied_by # None \/ nxt.issue # None THEN FALSE
        ELSE IF IsSet(nxt.last_exit_time) THEN FALSE
        ELSE TRUE

\* _can_enter_next_block: free, without issue, and headway elapsed
_can_enter_next_block(bl, b, now, headway) ==
    LET nxt == bl[b]
    IN  IF nxt.occupied_by # None \/ nxt.issue # None THEN FALSE
        ELSE IF IsSet(nxt.last_exit_time)
                /\ now - ValueOf(nxt.last_exit_time) < Sec(headway) THEN FALSE
        ELSE TRUE

\* mutant of HeldByPlan: the comparison with the deadline reversed
HeldByPlanReversed(plan, index, t, b, now) ==
    /\ IsSet(plan)
    /\ <<t, b>> \in DOMAIN index
    /\ now > index[<<t, b>>]

\* the plan gate of _process_train: the train is held out of block b
HeldByPlan(plan, index, t, b, now) ==
    /\ IsSet(plan)
    /\ <<t, b>> \in DOMAIN index
    /\ now < index[<<t, b>>]

\* wait accounting: one tick of waiting, whole minutes moved to delay_minutes
Waited(train, tick) ==
    LET w == train.waiting_sec + tick
        inc == w \div Sec(60)
    IN  IF w >= Sec(60)
        THEN [train EXCEPT !.waiting_sec = w - Sec(60) * inc,
                           !.delay_minutes = @ + inc]
        ELSE [train EXCEPT !.waiting_sec = w]

\* the dwell_remaining update at the top of _process_train
DwellRemaining(train, now) ==
    IF IsStation(train.current_block)
    THEN IF now < train.will_exit_at
         THEN (train.will_exit_at - now) \div 2
         ELSE 0
    ELSE train.dwell_remaining

\* mutant of MoveEvents: TRAIN_ARRIVED put before TRAIN_DEPARTED
MoveEventsArrivalFirst(departed, arrived, station) ==
    IF station THEN <<arrived, departed>> ELSE <<departed>>

\* the events of a move: TRAIN_DEPARTED, then TRAIN_ARRIVED if nxt.station_id
MoveEvents(departed, arrived, station) ==
    IF station THEN <<departed, arrived>> ELSE <<departed>>

\* mutant of Vacated: the exit is stamped but the occupant is not cleared
VacatedKeepingOccupant(bl, cur, now) ==
    [bl EXCEPT ![cur].last_exit_time = At(now)]

\* the block a train leaves: occupied_by cleared, last_exit_time stamped
Vacated(bl, cur, now) ==
    [bl EXCEPT ![cur].occupied_by = None, ![cur].last_exit_time = At(now)]

\* depart the current block and enter block b
Moved(s, t, b, now, dwell) ==
    LET train == s.trains[t]
        cur == train.current_block
        departed == _create_event(s.ctr, "TRAIN_DEPARTED", t, cur, now)
        idx == train.route_index + 1
        arrived == _create_event(s.ctr + 1, "TRAIN_ARRIVED", t, b, now)
        bl1 == Vacated(s.blocks, cur, now)
    IN  [blocks |-> [bl1 EXCEPT ![b].occupied_by = t],
         trains |-> [s.trains EXCEPT ![t] =
                        [train EXCEPT
                            !.current_block = b,
                            !.route_index = idx,
                            !.entered_block_at = now,
                            !.will_exit_at = _compute_will_exit(t, b, now, dwell),
                            !.next_block = NextBlockAt(t, idx),
                            !.waiting_sec = 0]],
         moved |-> TRUE,
         events |-> s.events \o MoveEvents(departed, arrived, IsStation(b)),
         ctr |-> IF IsStation(b) THEN s.ctr + 2 ELSE s.ctr + 1]

\* _process_train on the tick state s = [blocks, trains, moved, events, ctr]
_process_train(s, t, now, tick, headway, dwell, plan, index) ==
    LET train == [s.trains[t] EXCEPT !.dwell_remaining = DwellRemaining(s.trains[t], now)]
        s1 == [s EXCEPT !.trains[t] = train]
    IN  IF now < train.will_exit_at THEN s1
        ELSE IF train.route_index >= LastIndex(t) THEN s1
        ELSE LET next_block_id == RouteAt(t, train.route_index + 1)
             IN  IF HeldByPlan(plan, index, t, next_block_id, now)
                 THEN [s1 EXCEPT !.trains[t] = Waited(train, tick)]
                 ELSE IF ~_can_enter_next_block(s1.blocks, next_block_id, now, headway)
                 THEN [s1 EXCEPT !.trains[t] = Waited(train, tick)]
                 ELSE Moved(s1, t, next_block_id, now, dwell)

\* the loop of step() over the trains in insertion order (the state after
\* each train is bound once, as s1, before the next train is processed)
RECURSIVE ProcessTrains(_, _, _, _, _, _, _, _)
ProcessTrains(s, i, now, tick, headway, dwell, plan, index) ==
    IF i > Len(TrainOrder) THEN s
    ELSE CHOOSE r \in
            { ProcessTrains(s1, i + 1, now, tick, headway, dwell, plan, index) :
                s1 \in {_process_train(s, TrainOrder[i], now, tick, headway,
                                       dwell, plan, index)} } : TRUE

\* _is_completed: every train at its last index, not traversing, not dwelling
_is_completed(tr, now) ==
    \A t \in TrainIds :
        /\ tr[t].route_index >= LastIndex(t)
        /\ ~(now < tr[t].will_exit_at)
        /\ ~(tr[t].dwell_remaining > 0)

\* the idle counter after a tick
IdleTicksAfter(moved, idle) == IF moved THEN 0 ELSE idle + 1

\* mutant of FuseBlown: the limit compared with > instead of >=
FuseBlownLate(moved, idle) == ~moved /\ idle > idle_limit

\* the safety fuse
FuseBlown(moved, idle) == ~moved /\ idle >= idle_limit

\* mutant of StepAdvances: the status check left out
StepAdvancesAnyStatus(st, done) == ~done

\* step() advances only when RUNNING and not completed
StepAdvances(st, done) == st = "RUNNING" /\ ~done

\* mutant of EmitsCompletion: the completion branch never taken
EmitsCompletionNever(done, emitted) == FALSE

\* the one-shot completion: emit the event and move to COMPLETED
EmitsCompletion(done, emitted) == done /\ ~emitted

\* mutant of StatusAfterStep: the transition to COMPLETED left out
StatusAfterStepKept(st, emits) == st

StatusAfterStep(st, emits) == IF emits THEN "COMPLETED" ELSE st

\* the entries and exits made by a tick, read off the trains before and after
MovedTrains(before, after) ==
    {t \in TrainIds : after[t].route_index # before[t].route_index}

LogTick(log, before, after, now, evs) ==
    LET mv == MovedTrains(before, after)
    IN  [exits |-> log.exits \cup
            {[block |-> before[t].current_block, time |-> now] : t \in mv},
         entries |-> log.entries \cup
            {[train |-> t, block |-> after[t].current_block, time |-> now,
              headway |-> headway_sec,
              issue |-> blocks[after[t].current_block].issue,
              hold |-> IF <<t, after[t].current_block>> \in DOMAIN holds_index
                       THEN At(holds_index[<<t, after[t].current_block>>])
                       ELSE Absent] : t \in mv},
         completions |-> log.completions +
            Cardinality({i \in 1..Len(evs) : evs[i].event_kind = "SIMULATION_COMPLETED"}),
         no_move_ticks |-> IF mv = {} THEN log.no_move_ticks + 1 ELSE 0,
         waited |-> [t \in TrainIds |->
            IF /\ t \notin mv
               /\ <<after[t].waiting_sec, after[t].delay_minutes>>
                     # <<before[t].waiting_sec, before[t].delay_minutes>>
            THEN log.waited[t] + (now - sim_time)
            ELSE log.waited[t]],
         given |-> log.given,
         applied |-> log.applied]

\* what a call returned: ok is FALSE when it raised; arg is the history of
\* the arguments it was called with (<<>> for a call without arguments)
ResultOf(ok, evs, arg) == [ok |-> ok, events |-> evs, arg |-> arg]

Result(ok, evs) == ResultOf(ok, evs, <<>>)

\* step() called on the live simulator
StepCall(may_tick) ==
    /\ last_op' = "step"
    /\ IF ~StepAdvances(status, completed)
       THEN /\ returned' = Result(TRUE, <<>>)
            /\ UNCHANGED <<status, completed, completion_emitted, sim_time, tick_count,
                           moved_this_tick, idle_ticks, headway_sec, dwell_sec,
                           energy_stop_penalty, simulation_speed, event_counter,
                           blocks, trains, active_plan, holds_index, sim_task,
                           http_code, run_log, ops>>
       ELSE /\ may_tick
            /\ \E tick \in {TickUnits(simulation_speed)},
                  now \in {sim_time + TickUnits(simulation_speed)} :
               \E s \in {ProcessTrains([blocks |-> blocks, trains |-> trains,
                                       moved |-> FALSE, events |-> <<>>,
                                       ctr |-> event_counter],
                                      1, now, tick, headway_sec, dwell_sec,
                                      active_plan, holds_index)} :
               LET idle == IdleTicksAfter(s.moved, idle_ticks)
                   done == \/ completed
                           \/ FuseBlown(s.moved, idle)
                           \/ _is_completed(s.trains, now)
                   emits == EmitsCompletion(done, completion_emitted)
                   evs == IF emits
                          THEN Append(s.events,
                                      _create_event(s.ctr, "SIMULATION_COMPLETED",
                                                    None, None, now))
                          ELSE s.events
               IN  /\ tick_count' = tick_count + 1
                   /\ sim_time' = now
                   /\ moved_this_tick' = s.moved
                   /\ blocks' = s.blocks
                   /\ trains' = s.trains
                   /\ idle_ticks' = idle
                   /\ completed' = done
                   /\ completion_emitted' = (completion_emitted \/ emits)
                   /\ status' = StatusAfterStep(status, emits)
                   /\ event_counter' = IF emits THEN s.ctr + 1 ELSE s.ctr
                   /\ returned' = Result(TRUE, evs)
                   /\ run_log' = LogTick(run_log, trains, s.trains, now, evs)
            /\ UNCHANGED <<headway_sec, dwell_sec, energy_stop_penalty,
                           simulation_speed, active_plan, holds_index, sim_task,
                           http_code, ops>>

Step(may_tick) == StepCall(may_tick) /\ UNCHANGED plan_vars

-----------------------------------------------------------------------------
(* Inputs the calls are explored with *)

\* ids given to inject_delay and set_block_issue; "T9" and "B99" are unknown
InjectTrains == {"T1", "T9"}
InjectMinutes == {-2, 3}
IssueBlocks == {"B4", "B8", "B99"}

\* a directive with an int offset, and one whose offset int() raises on (None)
Hold(t, b, off) ==
    [train_id |-> t, block_id |-> b, not_before_offset_sec |-> At(off)]

HoldWithoutOffset(t, b) ==
    [train_id |-> t, block_id |-> b, not_before_offset_sec |-> Absent]

\* plans given to apply_plan (the holds list of a Plan)
Plans ==
    { <<>>,
      <<Hold("T3", "B8", 30)>>,
      <<Hold("T4", "B4", 20), Hold("T5", "B9", 0), Hold("T4", "B4", 8)>>,
      <<Hold("T9", "B4", 15), Hold("T3", "B99", 15)>>,
      <<Hold("T5", "B9", -5), HoldWithoutOffset("T4", "B4"), Hold("T3", "B8", 10)>> }

\* bodies posted to /apply_plan (the holds of a PlanIn)
PlanIns ==
    { <<Hold("T3", "B8", 30)>>,
      <<Hold("T9", "B4", 15), Hold("T3", "B99", 15)>>,
      <<Hold("T5", "B9", -5), Hold("T3", "B8", 10)>>,
      <<HoldWithoutOffset("T4", "B4"), Hold("T3", "B8", 10)>>,
      <<Hold("", "B4", 5), Hold("T3", "B8", 10)>> }

Payload(h, d, e, sp) ==
    [headway_sec |-> h, dwell_sec |-> d, energy_stop_penalty |-> e,
     simulation_speed |-> sp]

\* ControlPayloads given to update_parameters (speed and penalty in tenths)
ControlPayloads ==
    { Payload(At(0), Absent, Absent, Absent),
      Payload(At(30), At(25), Absent, Absent),
      Payload(At(-5), At(-1), At(-5), At(0)),
      Payload(Absent, Absent, Absent, At(250)) }

-----------------------------------------------------------------------------
(* Lifecycle and controls *)

\* mutant of StatusAfterStart: the COMPLETED guard left out
StatusAfterStartUnguarded(st) ==
    IF st # "RUNNING" THEN "RUNNING" ELSE st

\* start(): IDLE -> RUNNING; nothing when COMPLETED or already RUNNING
StatusAfterStart(st) ==
    IF st = "COMPLETED" THEN st
    ELSE IF st # "RUNNING" THEN "RUNNING"
    ELSE st

Start(may_call) ==
    /\ IF status = "IDLE" THEN ops' = ops ELSE may_call /\ ops' = ops + 1
    /\ last_op' = "start"
    /\ UNCHANGED plan_vars
    /\ returned' = Result(TRUE, <<>>)
    /\ status' = StatusAfterStart(status)
    /\ UNCHANGED <<completed, completion_emitted, sim_time, tick_count,
                   moved_this_tick, idle_ticks, headway_sec, dwell_sec,
                   energy_stop_penalty, simulation_speed, event_counter, blocks,
                   trains, active_plan, holds_index, sim_task, http_code,
                   run_log>>

\* what reset() assigns besides the status
ResetFields(draws) ==
    LET s == AfterReset(draws)
    IN  /\ sim_time' = 0
        /\ tick_count' = 0
        /\ event_counter' = 0
        /\ completed' = FALSE
        /\ completion_emitted' = FALSE
        /\ moved_this_tick' = FALSE
        /\ idle_ticks' = 0
        /\ active_plan' = Absent
        /\ holds_index' = << >>
        /\ blocks' = s.blocks
        /\ headway_sec' = TopologyHeadwaySec
        /\ dwell_sec' = TopologyDwellSec
        /\ trains' = s.trains
        /\ run_log' = EmptyLog(s.trains)
        /\ UNCHANGED <<simulation_speed, energy_stop_penalty>>

\* what reset() assigns: everything but simulation_speed, energy_stop_penalty
ResetEngine(draws) == ResetFields(draws) /\ status' = "IDLE"

Reset(may_call) ==
    /\ may_call
    /\ ops' = ops + 1
    /\ last_op' = "reset"
    /\ UNCHANGED plan_vars
    /\ returned' = Result(TRUE, <<>>)
    /\ \E draws \in RngDraws : ResetEngine(draws)
    /\ UNCHANGED <<sim_task, http_code>>

\* int clamped below at 0
ClampNonNegative(x) == Max(0, x)

\* mutant of ClampSpeed: the value taken as given
ClampSpeedAsGiven(x) == x

\* simulation_speed clamped into [0.1, 10.0]
ClampSpeed(x) == Max(MinSpeedTenths, Min(MaxSpeedTenths, x))

UpdateParameters(may_call) ==
    /\ may_call
    /\ ops' = ops + 1
    /\ last_op' = "update_parameters"
    /\ UNCHANGED plan_vars
    /\ \E control \in ControlPayloads :
        /\ returned' = ResultOf(TRUE, <<>>, control)
        /\ headway_sec' = IF IsSet(control.headway_sec)
                          THEN ClampNonNegative(ValueOf(control.headway_sec))
                          ELSE headway_sec
        /\ dwell_sec' = IF IsSet(control.dwell_sec)
                        THEN ClampNonNegative(ValueOf(control.dwell_sec))
                        ELSE dwell_sec
        /\ energy_stop_penalty' =
                IF IsSet(control.energy_stop_penalty)
                THEN ClampNonNegative(ValueOf(control.energy_stop_penalty))
                ELSE energy_stop_penalty
        /\ simulation_speed' = IF IsSet(control.simulation_speed)
                               THEN ClampSpeed(ValueOf(control.simulation_speed))
                               ELSE simulation_speed
    /\ UNCHANGED <<status, completed, completion_emitted, sim_time, tick_count,
                   moved_this_tick, idle_ticks, event_counter, blocks, trains,
                   active_plan, holds_index, sim_task, http_code, run_log>>

\* mutant of UnknownId: the membership test left out
UnknownIdNever(ids, id) == FALSE

\* the "not in self.trains" / "not in self.blocks" test that raises ValueError
UnknownId(ids, id) == id \notin ids

\* mutant of InjectedMinutes: the clamp at 0 left out
InjectedMinutesUnclamped(m) == m

\* the minutes inject_delay adds: max(0, int(delay_minutes))
InjectedMinutes(m) == Max(0, m)

InjectDelay(may_call) ==
    /\ may_call
    /\ ops' = ops + 1
    /\ last_op' = "inject_delay"
    /\ UNCHANGED plan_vars
    /\ \E train_id \in InjectTrains, delay_minutes \in InjectMinutes :
        IF UnknownId(DOMAIN trains, train_id)
        THEN /\ returned' = ResultOf(FALSE, <<>>, <<train_id, delay_minutes>>)
             /\ UNCHANGED <<trains, event_counter, run_log>>
        ELSE /\ trains' = [trains EXCEPT
                    ![train_id].delay_minutes = @ + InjectedMinutes(delay_minutes)]
             /\ event_counter' = event_counter + 1
             /\ returned' = ResultOf(TRUE,
                    <<_create_event(event_counter, "DELAY_INJECTED", train_id,
                                    None, sim_time)>>,
                    <<train_id, delay_minutes>>)
             /\ run_log' = [run_log EXCEPT !.given =
                    [t \in TrainIds |-> @[t] + trains'[t].delay_minutes
                                             - trains[t].delay_minutes]]
    /\ UNCHANGED <<status, completed, completion_emitted, sim_time, tick_count,
                   moved_this_tick, idle_ticks, headway_sec, dwell_sec,
                   energy_stop_penalty, simulation_speed, blocks, active_plan,
                   holds_index, sim_task, http_code>>

SetBlockIssue(may_call) ==
    /\ may_call
    /\ ops' = ops + 1
    /\ last_op' = "set_block_issue"
    /\ UNCHANGED plan_vars
    /\ \E block_id \in IssueBlocks, blocked \in BOOLEAN :
        IF UnknownId(DOMAIN blocks, block_id)
        THEN /\ returned' = ResultOf(FALSE, <<>>, <<block_id, blocked>>)
             /\ UNCHANGED <<blocks, event_counter>>
        ELSE /\ blocks' = IF blocked
                          THEN [blocks EXCEPT ![block_id].issue = "BLOCKED",
                                              ![block_id].issue_since = At(sim_time)]
                          ELSE [blocks EXCEPT ![block_id].issue = None,
                                              ![block_id].issue_since = Absent]
             /\ event_counter' = event_counter + 1
             /\ returned' = ResultOf(TRUE,
                    <<_create_event(event_counter,
                                    IF blocked THEN "BLOCK_FAILED" ELSE "BLOCK_CLEARED",
                                    None, block_id, sim_time)>>,
                    <<block_id, blocked>>)
    /\ UNCHANGED <<status, completed, completion_emitted, sim_time, tick_count,
                   moved_this_tick, idle_ticks, headway_sec, dwell_sec,
                   energy_stop_penalty, simulation_speed, trains, active_plan,
                   holds_index, sim_task, http_code, run_log>>

\* int(h.not_before_offset_sec) raises, so the loop skips the directive
OffsetRaises(h) == ~IsSet(h.not_before_offset_sec)

\* mutant of IndexOfPlan: the offsets not anchored at the sim_time of the call
IndexOfPlanUnanchored(holds, base) ==
    LET kept == {i \in 1..Len(holds) : ~OffsetRaises(holds[i])}
        keys == {<<holds[i].train_id, holds[i].block_id>> : i \in kept}
        last(k) == CHOOSE i \in kept :
                      /\ <<holds[i].train_id, holds[i].block_id>> = k
                      /\ \A j \in kept :
                            <<holds[j].train_id, holds[j].block_id>> = k => j <= i
    IN  [k \in keys |-> Sec(ValueOf(holds[last(k)].not_before_offset_sec))]

\* the index apply_plan builds: a directive whose offset int() raises on is
\* skipped, the other offsets are anchored at base, and a later hold of the
\* list overwrites an earlier one with the same key
IndexOfPlan(holds, base) ==
    LET kept == {i \in 1..Len(holds) : ~OffsetRaises(holds[i])}
        keys == {<<holds[i].train_id, holds[i].block_id>> : i \in kept}
        last(k) == CHOOSE i \in kept :
                      /\ <<holds[i].train_id, holds[i].block_id>> = k
                      /\ \A j \in kept :
                            <<holds[j].train_id, holds[j].block_id>> = k => j <= i
    IN  [k \in keys |-> base + Sec(ValueOf(holds[last(k)].not_before_offset_sec))]

ApplyPlan(may_call) ==
    /\ may_call
    /\ ops' = ops + 1
    /\ last_op' = "apply_plan"
    /\ UNCHANGED plan_vars
    /\ \E holds \in Plans :
        /\ returned' = ResultOf(TRUE, <<>>, holds)
        /\ active_plan' = At(holds)
        /\ holds_index' = IndexOfPlan(holds, sim_time)
    /\ run_log' = [run_log EXCEPT !.applied = @ + 1]
    /\ UNCHANGED <<status, completed, completion_emitted, sim_time, tick_count,
                   moved_this_tick, idle_ticks, headway_sec, dwell_sec,
                   energy_stop_penalty, simulation_speed, event_counter, blocks,
                   trains, sim_task, http_code>>

ClearPlan(may_call) ==
    /\ may_call
    /\ ops' = ops + 1
    /\ last_op' = "clear_plan"
    /\ UNCHANGED plan_vars
    /\ returned' = Result(TRUE, <<>>)
    /\ active_plan' = Absent
    /\ holds_index' = << >>
    /\ UNCHANGED <<status, completed, completion_emitted, sim_time, tick_count,
                   moved_this_tick, idle_ticks, headway_sec, dwell_sec,
                   energy_stop_penalty, simulation_speed, event_counter, blocks,
                   trains, sim_task, http_code, run_log>>

-----------------------------------------------------------------------------
(* Lifecycle endpoints of main.py *)

\* mutant of StartRejected: the endpoint's lifecycle guard left out
StartNeverRejected(st) == FALSE

\* POST /start is refused with 409 once the run is COMPLETED
StartRejected(st) == st = "COMPLETED"

HttpStart(may_call) ==
    /\ IF status = "IDLE" THEN ops' = ops ELSE may_call /\ ops' = ops + 1
    /\ last_op' = "POST /start"
    /\ UNCHANGED plan_vars
    /\ returned' = Result(TRUE, <<>>)
    /\ IF StartRejected(status)
       THEN /\ http_code' = 409
            /\ UNCHANGED <<status, sim_task>>
       ELSE /\ http_code' = 200
            /\ status' = StatusAfterStart(status)
            /\ sim_task' = TRUE
    /\ UNCHANGED <<completed, completion_emitted, sim_time, tick_count,
                   moved_this_tick, idle_ticks, headway_sec, dwell_sec,
                   energy_stop_penalty, simulation_speed, event_counter, blocks,
                   trains, active_plan, holds_index, run_log>>

\* POST /reset: the stepping loop is cancelled, then the engine reset
HttpReset(may_call) ==
    /\ may_call
    /\ ops' = ops + 1
    /\ last_op' = "POST /reset"
    /\ UNCHANGED plan_vars
    /\ returned' = Result(TRUE, <<>>)
    /\ sim_task' = FALSE
    /\ http_code' = 200
    /\ \E draws \in RngDraws : ResetEngine(draws)

\* HoldDirectiveIn: not_before_offset_sec is a required int, ge=0
HoldDirectiveInValid(h) ==
    /\ IsSet(h.not_before_offset_sec)
    /\ ValueOf(h.not_before_offset_sec) >= 0

\* HoldDirective.__post_init__: non-empty ids, an int offset >= 0
HoldDirectiveValid(h) ==
    /\ h.train_id # ""
    /\ h.block_id # ""
    /\ IsSet(h.not_before_offset_sec)
    /\ ValueOf(h.not_before_offset_sec) >= 0

\* POST /apply_plan: the body is validated as a PlanIn (422), its holds are
\* built as HoldDirectives (an exception gives 400), then the plan is applied
HttpApplyPlan(may_call) ==
    /\ may_call
    /\ ops' = ops + 1
    /\ last_op' = "POST /apply_plan"
    /\ UNCHANGED plan_vars
    /\ \E plan_in \in PlanIns :
        IF \E i \in 1..Len(plan_in) : ~HoldDirectiveInValid(plan_in[i])
        THEN /\ http_code' = 422
             /\ returned' = ResultOf(FALSE, <<>>, plan_in)
             /\ UNCHANGED <<active_plan, holds_index, run_log>>
        ELSE IF \E i \in 1..Len(plan_in) : ~HoldDirectiveValid(plan_in[i])
        THEN /\ http_code' = 400
             /\ returned' = ResultOf(FALSE, <<>>, plan_in)
             /\ UNCHANGED <<active_plan, holds_index, run_log>>
        ELSE /\ http_code' = 200
             /\ returned' = ResultOf(TRUE, <<>>, plan_in)
             /\ active_plan' = At(plan_in)
             /\ holds_index' = IndexOfPlan(plan_in, sim_time)
             /\ run_log' = [run_log EXCEPT !.applied = @ + 1]
    /\ UNCHANGED <<status, completed, completion_emitted, sim_time, tick_count,
                   moved_this_tick, idle_ticks, headway_sec, dwell_sec,
                   energy_stop_penalty, simulation_speed, event_counter, blocks,
                   trains, sim_task>>

\* simulation_loop finds the engine completed and ends
SimulationLoopExit ==
    /\ sim_task
    /\ completed
    /\ sim_task' = FALSE
    /\ last_op' = "simulation_loop exit"
    /\ UNCHANGED plan_vars
    /\ returned' = Result(TRUE, <<>>)
    /\ UNCHANGED <<status, completed, completion_emitted, sim_time, tick_count,
                   moved_this_tick, idle_ticks, headway_sec, dwell_sec,
                   energy_stop_penalty, simulation_speed, event_counter, blocks,
                   trains, active_plan, holds_index, http_code, run_log, ops>>

-----------------------------------------------------------------------------
(* Plan.merged() of plan.py *)

\* the HoldDirectives a Plan is built from
HoldPool ==
    { Hold(t, b, off) : t \in {"T3", "T4"}, b \in {"B8"}, off \in {0, 10, 20} }

\* the key (train_id, block_id) of a directive
KeyOf(h) == <<h.train_id, h.block_id>>

OffsetOf(h) == ValueOf(h.not_before_offset_sec)

\* the loop of merged() from the i-th hold on; best is the dict's values in
\* insertion order (a replaced value keeps the place of its key)
RECURSIVE MergedFrom(_, _, _)
MergedFrom(holds, i, best) ==
    IF i > Len(holds) THEN best
    ELSE LET h == holds[i]
             at == {j \in 1..Len(best) : KeyOf(best[j]) = KeyOf(h)}
         IN  IF at = {}
             THEN MergedFrom(holds, i + 1, Append(best, h))
             ELSE LET j == CHOOSE j \in at : TRUE
                  IN  IF OffsetOf(h) > OffsetOf(best[j])
                      THEN MergedFrom(holds, i + 1, [best EXCEPT ![j] = h])
                      ELSE MergedFrom(holds, i + 1, best)

\* mutant of merged: the comparison of offsets left out, so the last
\* directive of a key wins
RECURSIVE MergedLastWinsFrom(_, _, _)
MergedLastWinsFrom(holds, i, best) ==
    IF i > Len(holds) THEN best
    ELSE LET h == holds[i]
             at == {j \in 1..Len(best) : KeyOf(best[j]) = KeyOf(h)}
         IN  IF at = {}
             THEN MergedLastWinsFrom(holds, i + 1, Append(best, h))
             ELSE MergedLastWinsFrom(holds, i + 1,
                                     [best EXCEPT ![CHOOSE j \in at : TRUE] = h])

MergedLastWins(holds) == MergedLastWinsFrom(holds, 1, <<>>)

\* Plan.merged(): the holds of the new Plan
merged(holds) == MergedFrom(holds, 1, <<>>)

\* a HoldDirective is appended to the holds of p before merged() is called
AddHold ==
    /\ merges = <<>>
    /\ Len(plan_obj) < MaxHolds
    /\ \E h \in HoldPool : plan_obj' = Append(plan_obj, h)
    /\ UNCHANGED <<merges, runs, twins, opt, served, aio, sim_vars>>

\* merged() is called on p, then on the Plan the last call returned
CallMerged ==
    /\ Len(merges) < MaxMerges
    /\ merges' = Append(merges, merged(IF merges = <<>> THEN plan_obj
                                       ELSE merges[Len(merges)]))
    /\ UNCHANGED <<plan_obj, runs, twins, opt, served, aio, sim_vars>>

-----------------------------------------------------------------------------
(* Batch runs of main.py: run_to_completion on an isolated simulator *)

max_ticks == 20000

\* the microseconds within the millisecond of the wall clock that reset()
\* reads into sim_time
StartMicros == {0, 456}

\* RailwaySimulator(seed) followed by reset(): the fields of the instance
FreshEngine(draws) ==
    LET s == AfterReset(draws)
    IN  [status |-> "IDLE", completed |-> FALSE, completion_emitted |-> FALSE,
         sim_time |-> 0, tick_count |-> 0, moved_this_tick |-> FALSE,
         idle_ticks |-> 0, headway_sec |-> TopologyHeadwaySec,
         dwell_sec |-> TopologyDwellSec,
         simulation_speed |-> InitialSpeedTenths, event_counter |-> 0,
         blocks |-> s.blocks, trains |-> s.trains,
         active_plan |-> Absent, holds_index |-> << >>]

\* apply_plan, start and step on the instance e
EngineApplyPlan(e, holds) ==
    [e EXCEPT !.active_plan = At(holds),
              !.holds_index = IndexOfPlan(holds, e.sim_time)]

EngineStart(e) == [e EXCEPT !.status = StatusAfterStart(@)]

\* the rest of step() once the trains are processed into s at time now
EngineAfterTick(e, s, now) ==
    LET idle == IdleTicksAfter(s.moved, e.idle_ticks)
        done == \/ e.completed
                \/ FuseBlown(s.moved, idle)
                \/ _is_completed(s.trains, now)
        emits == EmitsCompletion(done, e.completion_emitted)
    IN  [e EXCEPT !.tick_count = @ + 1,
                  !.sim_time = now,
                  !.moved_this_tick = s.moved,
                  !.blocks = s.blocks,
                  !.trains = s.trains,
                  !.idle_ticks = idle,
                  !.completed = done,
                  !.completion_emitted = (@ \/ emits),
                  !.status = StatusAfterStep(@, emits),
                  !.event_counter = IF emits THEN s.ctr + 1 ELSE s.ctr]

EngineStep(e) ==
    IF ~StepAdvances(e.status, e.completed) THEN e
    ELSE CHOOSE r \in
            { EngineAfterTick(e, s, e.sim_time + TickUnits(e.simulation_speed)) :
                s \in {ProcessTrains([blocks |-> e.blocks, trains |-> e.trains,
                                      moved |-> FALSE, events |-> <<>>,
                                      ctr |-> e.event_counter],
                                     1, e.sim_time + TickUnits(e.simulation_speed),
                                     TickUnits(e.simulation_speed),
                                     e.headway_sec, e.dwell_sec,
                                     e.active_plan, e.holds_index)} } : TRUE

RECURSIVE SumDelay(_, _)
SumDelay(tr, i) ==
    IF i > Len(TrainOrder) THEN 0
    ELSE tr[TrainOrder[i]].delay_minutes + SumDelay(tr, i + 1)

\* round(total / n, 1) in tenths, ties to even
RoundedTenths(total, n) ==
    LET q == (total * 10) \div n
        r == (total * 10) % n
    IN  IF 2 * r > n \/ (2 * r = n /\ q % 2 = 1) THEN q + 1 ELSE q

\* compute_metrics: start_iso keeps the microseconds of the start, while the
\* end is read back from iso(sim_time), which drops those below a millisecond
compute_metrics(e, start_micros) ==
    [avg_delay_min |-> RoundedTenths(SumDelay(e.trains, 1), Len(TrainOrder)),
     trains_on_line |-> Len(TrainOrder),
     duration_sec |-> Max(0, e.sim_time * 500000 - start_micros) \div 1000000,
     by_train |-> [t \in TrainIds |-> e.trains[t].delay_minutes]]

\* a call of run_to_completion(plan, seed) that has reset its simulator
NewRun(draws, start_micros, plan) ==
    [sim |-> FreshEngine(draws), pc |-> "apply", ticks |-> 0,
     start_micros |-> start_micros, plan |-> plan, metrics |-> Absent]

\* the next statement of run_to_completion
RunAdvance(r) ==
    CASE r.pc = "apply" ->
            [r EXCEPT !.pc = "start",
                      !.sim = IF IsSet(r.plan)
                              THEN EngineApplyPlan(@, ValueOf(r.plan)) ELSE @]
      [] r.pc = "start" -> [r EXCEPT !.pc = "loop", !.sim = EngineStart(@)]
      [] r.pc = "loop" ->
            IF ~r.sim.completed /\ r.ticks < max_ticks
            THEN [r EXCEPT !.sim = EngineStep(@), !.ticks = @ + 1]
            ELSE [r EXCEPT !.pc = "done",
                           !.metrics = At(compute_metrics(r.sim, r.start_micros))]
      [] OTHER -> r

\* a paired trial: the baseline run (plan=None) and a run with an empty Plan,
\* both with the same seed
BeginRuns ==
    /\ runs = <<>>
    /\ \E draws \in RngDraws, a, b \in StartMicros :
          runs' = [baseline |-> NewRun(draws, a, Absent),
                   with_plan |-> NewRun(draws, b, At(<<>>))]
    /\ UNCHANGED <<plan_obj, merges, twins, opt, served, aio, sim_vars>>

\* both runs execute their next statement
AdvanceRuns ==
    /\ runs # <<>>
    /\ runs.baseline.pc # "done" \/ runs.with_plan.pc # "done"
    /\ runs' = [baseline |-> RunAdvance(runs.baseline),
                with_plan |-> RunAdvance(runs.with_plan)]
    /\ UNCHANGED <<plan_obj, merges, twins, opt, served, aio, sim_vars>>

-----------------------------------------------------------------------------
(* Two instances given the same seed and the same calls *)

\* seeds given to RailwaySimulator(seed): None, 42 or 7
Seeds == {Absent, At(42), At(7)}

\* mutant of _rng: the seed not passed to random.Random
RngIgnoringSeed(seed) == RngDraws

\* self._rng = random.Random(seed): the tables the instance can draw in its
\* first reset(); one table for an int seed, any table when seeded from the
\* operating system
_rng(seed) ==
    IF ~IsSet(seed) THEN RngDraws
    ELSE CASE ValueOf(seed) = 42 -> {Draws42}
           [] ValueOf(seed) = 43 -> {Draws43}
           [] ValueOf(seed) = 7 -> {Draws7}

\* the kinds of the events that step() returns on the instance e
EngineStepKinds(e) ==
    IF ~StepAdvances(e.status, e.completed) THEN <<>>
    ELSE CHOOSE r \in
            { LET after == EngineAfterTick(e, s, e.sim_time + TickUnits(e.simulation_speed))
                  kinds == [i \in 1..Len(s.events) |-> s.events[i].event_kind]
              IN  IF after.completion_emitted /\ ~e.completion_emitted
                  THEN Append(kinds, "SIMULATION_COMPLETED") ELSE kinds :
                s \in {ProcessTrains([blocks |-> e.blocks, trains |-> e.trains,
                                      moved |-> FALSE, events |-> <<>>,
                                      ctr |-> e.event_counter],
                                     1, e.sim_time + TickUnits(e.simulation_speed),
                                     TickUnits(e.simulation_speed),
                                     e.headway_sec, e.dwell_sec,
                                     e.active_plan, e.holds_index)} } : TRUE

\* RailwaySimulator(seed) and its first reset(), which drew the table draws
NewTwin(seed, draws) == [seed |-> seed, sim |-> FreshEngine(draws), kinds |-> <<>>]

TwinStart(t) == [t EXCEPT !.sim = EngineStart(@), !.kinds = <<>>]

TwinStep(t) == [t EXCEPT !.sim = EngineStep(@), !.kinds = EngineStepKinds(t.sim)]

\* two instances are constructed with one seed and reset
BeginTwins ==
    /\ twins = <<>>
    /\ \E seed \in Seeds :
         \E da \in _rng(seed), db \in _rng(seed) :
            twins' = [a |-> NewTwin(seed, da), b |-> NewTwin(seed, db)]
    /\ UNCHANGED <<plan_obj, merges, runs, opt, served, aio, sim_vars>>

\* start() is called on both
StartTwins ==
    /\ twins # <<>>
    /\ twins' = [a |-> TwinStart(twins.a), b |-> TwinStart(twins.b)]
    /\ UNCHANGED <<plan_obj, merges, runs, opt, served, aio, sim_vars>>

\* step() is called on both
StepTwins ==
    /\ twins # <<>>
    /\ twins' = [a |-> TwinStep(twins.a), b |-> TwinStep(twins.b)]
    /\ UNCHANGED <<plan_obj, merges, runs, opt, served, aio, sim_vars>>

-----------------------------------------------------------------------------
(* The dispatch optimizer of optimizer.py.  Times are whole seconds. *)

\* PRIORITY_WEIGHTS.get(str(priority).upper(), 20)
PRIORITY_WEIGHTS(p) ==
    CASE p = "EXPRESS" -> 100
      [] p = "REGIONAL" -> 50
      [] p = "FREIGHT" -> 10
      [] OTHER -> 20

TrainRouteBlock(t, b, station, travel, dwell, p) ==
    [train_id |-> t, block_id |-> b, is_station |-> station,
     travel_sec |-> travel, dwell_sec |-> dwell, priority |-> p]

\* the fixed duration of the interval of a record
Duration(trb) ==
    IF trb.is_station THEN Max(5, trb.dwell_sec) ELSE Max(10, trb.travel_sec)

\* e = s + duration for every record of routes under the start times st
EndsOf(routes, st) == [i \in DOMAIN routes |-> st[i] + Duration(routes[i])]

\* by_train: j is the record of i's train that follows i in routes
FollowsInTrain(routes, i, j) ==
    /\ i < j
    /\ routes[i].train_id = routes[j].train_id
    /\ \A k \in (i + 1)..(j - 1) : routes[k].train_id # routes[i].train_id

\* model.Add(starts[(tid, nxt)] >= ends[(tid, cur)]), for the start s of
\* record k and the starts st of the records before it
Precedence(routes, st, k, s) ==
    \A i \in 1..(k - 1) :
        FollowsInTrain(routes, i, k) => s >= st[i] + Duration(routes[i])

\* the pairwise ordering on shared blocks, added when self.headway_sec > 0,
\* for the start s of record k and the starts st of the records before it
HeadwayDisjunctions(routes, st, k, s, headway) ==
    headway > 0 =>
        \A i \in 1..(k - 1) :
            routes[i].block_id = routes[k].block_id =>
                \/ s >= st[i] + Duration(routes[i]) + headway
                \/ st[i] >= s + Duration(routes[k]) + headway

\* the start times that satisfy the CP-SAT model and begin with st: every
\* s and e within [LB, UB], precedence and headway
RECURSIVE Feasible(_, _, _, _, _)
Feasible(routes, st, now_sec, headway, max_time_sec) ==
    IF Len(st) = Len(routes) THEN {st}
    ELSE LET k == Len(st) + 1
         IN  UNION { Feasible(routes, Append(st, s), now_sec, headway, max_time_sec) :
                       s \in { x \in now_sec..(now_sec + max_time_sec) :
                                 /\ x + Duration(routes[k]) <= now_sec + max_time_sec
                                 /\ Precedence(routes, st, k, x)
                                 /\ HeadwayDisjunctions(routes, st, k, x, headway) } }

RECURSIVE MaxEnd(_, _, _)
MaxEnd(routes, st, i) ==
    IF i > Len(routes) THEN 0
    ELSE Max(st[i] + Duration(routes[i]), MaxEnd(routes, st, i + 1))

\* makespan: the maximum of the ends
makespan(routes, st) == MaxEnd(routes, st, 1)

RECURSIVE linear_sum(_, _, _)
linear_sum(routes, st, i) ==
    IF i > Len(routes) THEN 0
    ELSE PRIORITY_WEIGHTS(routes[i].priority) * (st[i] + Duration(routes[i]))
            + linear_sum(routes, st, i + 1)

\* model.Minimize(linear_sum * BIG + makespan), BIG = max_time_sec + 1000
Objective(routes, st, max_time_sec) ==
    linear_sum(routes, st, 1) * (max_time_sec + 1000) + makespan(routes, st)

\* the least value of a non-empty set of integers
Least(vals) == CHOOSE v \in vals : \A w \in vals : v <= w

\* the least objective over the solutions feas (0 when there is none)
LeastObjective(routes, feas, max_time_sec) ==
    IF feas = {} THEN 0
    ELSE Least({Objective(routes, g, max_time_sec) : g \in feas})

\* what solver.Solve can end with on a model whose solutions are feas and
\* whose least objective is best: no solution (INFEASIBLE, or UNKNOWN when
\* the time limit ends the search first), any solution (FEASIBLE, the time
\* limit ended the search), or a solution of least objective (OPTIMAL)
SolverOutcomes(routes, feas, best, max_time_sec) ==
    IF feas = {}
    THEN {[status |-> "INFEASIBLE", starts |-> <<>>]}
    ELSE {[status |-> "UNKNOWN", starts |-> <<>>]}
         \cup {[status |-> "FEASIBLE", starts |-> st] : st \in feas}
         \cup {[status |-> "OPTIMAL", starts |-> st] :
                 st \in {f \in feas : Objective(routes, f, max_time_sec) = best}}

\* results[train_id] before sorting: the (s, e) pairs of the train's records
RECURSIVE SegmentsOf(_, _, _, _)
SegmentsOf(routes, st, t, i) ==
    IF i > Len(routes) THEN <<>>
    ELSE IF routes[i].train_id = t
         THEN <<  <<st[i], st[i] + Duration(routes[i])>> >>
                  \o SegmentsOf(routes, st, t, i + 1)
         ELSE SegmentsOf(routes, st, t, i + 1)

\* list.sort(key=lambda x: x[0]): a stable sort on the start
RECURSIVE InsertByStart(_, _)
InsertByStart(sorted, x) ==
    IF sorted = <<>> THEN <<x>>
    ELSE IF sorted[Len(sorted)][1] <= x[1] THEN Append(sorted, x)
    ELSE Append(InsertByStart(SubSeq(sorted, 1, Len(sorted) - 1), x),
                sorted[Len(sorted)])

RECURSIVE SortByStart(_)
SortByStart(seq) ==
    IF seq = <<>> THEN <<>>
    ELSE InsertByStart(SortByStart(SubSeq(seq, 1, Len(seq) - 1)), seq[Len(seq)])

\* the dict optimize returns: empty unless the status is OPTIMAL or FEASIBLE
ResultsOf(routes, outcome) ==
    IF outcome.status \notin {"OPTIMAL", "FEASIBLE"} THEN <<>>
    ELSE [t \in {routes[i].train_id : i \in DOMAIN routes} |->
            SortByStart(SegmentsOf(routes, outcome.starts, t, 1))]

\* what a call of the optimizer was given and what it returned
OptCall(call, data, routes, headway, max_time_sec, outcome, plan) ==
    [call |-> call, data |-> data, routes |-> routes, headway_sec |-> headway,
     max_time_sec |-> max_time_sec, status |-> outcome.status,
     starts |-> outcome.starts, schedule |-> ResultsOf(routes, outcome),
     plan |-> plan]

\* the longest horizon (max_time_sec) DispatchOptimizer is constructed with
MaxHorizon == 21

\* routes given to DispatchOptimizer.optimize
OptimizerRoutes ==
    { << TrainRouteBlock("A", "X", TRUE, 0, 5, "FREIGHT"),
         TrainRouteBlock("A", "L", FALSE, 10, 0, "FREIGHT"),
         TrainRouteBlock("B", "X", TRUE, 0, 5, "EXPRESS") >>,
      << TrainRouteBlock("A", "X", TRUE, 0, 0, "REGIONAL"),
         TrainRouteBlock("B", "Y", FALSE, 3, 0, "LOCAL"),
         TrainRouteBlock("B", "X", TRUE, 0, 2, "LOCAL") >>,
      << TrainRouteBlock("A", "Y", FALSE, 6, 0, "EXPRESS"),
         TrainRouteBlock("B", "Y", FALSE, 6, 0, "EXPRESS") >> }

OptimizerHeadways == {0, 1, 4}

OptimizerHorizons == {8, MaxHorizon}

\* DispatchOptimizer(max_time_sec, headway_sec).optimize(0, routes)
Optimize ==
    /\ opt = <<>>
    /\ \E routes \in OptimizerRoutes, headway \in OptimizerHeadways,
          max_time_sec \in OptimizerHorizons :
        \E feas \in {Feasible(routes, <<>>, 0, headway, max_time_sec)} :
        \E best \in {LeastObjective(routes, feas, max_time_sec)} :
        \E outcome \in SolverOutcomes(routes, feas, best, max_time_sec) :
            opt' = OptCall("optimize", <<>>, routes, headway, max_time_sec,
                           outcome, <<>>)
    /\ UNCHANGED <<plan_obj, merges, runs, twins, served, aio, sim_vars>>

-----------------------------------------------------------------------------
(* optimize_from_sim of optimizer.py: snapshot -> routes -> schedule -> Plan *)

SnapshotParams(dwell, headway, max_time, default_speed) ==
    [dwell_sec |-> dwell, headway_sec |-> headway, max_time_sec |-> max_time,
     default_speed_kmh |-> default_speed]

BlockSnapshot(station, length_m, max_speed) ==
    [station |-> station, length_m |-> length_m, max_speed_kmh |-> max_speed]

TrainSnapshot(id, priority, route, route_index) ==
    [id |-> id, priority |-> priority, route |-> route, route_index |-> route_index]

\* int(max(10, (length_km / max(speed_kmh, 1.0)) * 3600.0)) on a track block;
\* a length or speed of 0 is replaced by 1.0 km or the default speed
TravelSec(b, params) ==
    LET length_m == IF b.length_m = 0 THEN 1000 ELSE b.length_m
        speed == IF b.max_speed_kmh = 0 THEN params.default_speed_kmh
                 ELSE b.max_speed_kmh
    IN  IF b.station THEN 0
        ELSE Max(10, (length_m * 18) \div (5 * Max(speed, 1)))

\* int(max(1, dwell_sec_default if is_station else 0))
DwellSec(b, params) ==
    Max(1, IF b.station THEN Max(0, params.dwell_sec) ELSE 0)

\* mutant of StartIdx: the train's current block is scheduled as well
StartIdxClamped(t) == Max(0, Min(t.route_index, Len(t.route) - 1))

\* start_idx = route_index + 1: scheduling starts at the next block
StartIdx(t) == t.route_index + 1

\* the records of train t for the route positions idx.. (0-based)
RECURSIVE RecordsFrom(_, _, _)
RecordsFrom(data, t, idx) ==
    IF idx >= Len(t.route) THEN <<>>
    ELSE LET b == data.blocks[t.route[idx + 1]]
         IN  << TrainRouteBlock(t.id, t.route[idx + 1], b.station,
                                TravelSec(b, data.params),
                                DwellSec(b, data.params), t.priority) >>
             \o RecordsFrom(data, t, idx + 1)

\* routes: the records of the trains k.. of the snapshot, train by train
RECURSIVE BuildRoutes(_, _)
BuildRoutes(data, k) ==
    IF k > Len(data.trains) THEN <<>>
    ELSE LET t == data.trains[k]
         IN  (IF StartIdx(t) >= Len(t.route) THEN <<>>
              ELSE RecordsFrom(data, t, StartIdx(t)))
             \o BuildRoutes(data, k + 1)

\* mutant of HoldWanted: a directive for every scheduled train
HoldWantedAlways(start_sec) == TRUE

\* if start_sec > 0: the optimizer delays the entry to the next block
HoldWanted(start_sec) == start_sec > 0

\* holds: for the trains k.. not at their last block, a directive on the
\* next block when the first scheduled segment is delayed
RECURSIVE HoldsFrom(_, _, _)
HoldsFrom(data, schedule, k) ==
    IF k > Len(data.trains) THEN <<>>
    ELSE LET t == data.trains[k]
             rest == HoldsFrom(data, schedule, k + 1)
         IN  IF Len(t.route) = 0 \/ t.route_index >= Len(t.route) - 1 THEN rest
             ELSE IF t.id \notin DOMAIN schedule THEN rest
             ELSE IF schedule[t.id] = <<>> THEN rest
             ELSE IF HoldWanted(schedule[t.id][1][1])
                  THEN << Hold(t.id, t.route[t.route_index + 2],
                               schedule[t.id][1][1]) >> \o rest
                  ELSE rest

\* block summaries of the snapshots: X is a station, Y takes 27 s, Z 45 s,
\* W has neither length nor speed
SnapshotBlocks ==
    [X |-> BlockSnapshot(TRUE, 1000, 80),
     Y |-> BlockSnapshot(FALSE, 600, 80),
     Z |-> BlockSnapshot(FALSE, 1000, 80),
     W |-> BlockSnapshot(FALSE, 0, 0)]

SnapshotOf(params, train_list) ==
    [params |-> params, blocks |-> SnapshotBlocks, trains |-> train_list]

\* snapshots given to optimize_from_sim
Snapshots ==
    { SnapshotOf(SnapshotParams(20, 5, 60, 80),
                 << TrainSnapshot("A", "EXPRESS", <<"X", "Y">>, 0),
                    TrainSnapshot("B", "FREIGHT", <<"Z", "Y">>, 0) >>),
      SnapshotOf(SnapshotParams(20, 5, 30, 80),
                 << TrainSnapshot("A", "REGIONAL", <<"X", "Y", "X">>, 0),
                    TrainSnapshot("B", "EXPRESS", <<"Y">>, 0) >>),
      SnapshotOf(SnapshotParams(-5, 0, 60, 80),
                 << TrainSnapshot("A", "EXPRESS", <<"X", "Y">>, 1),
                    TrainSnapshot("B", "FREIGHT", <<"Z", "Y", "X">>, 1) >>),
      SnapshotOf(SnapshotParams(20, 5, 60, 80),
                 << TrainSnapshot("A", "EXPRESS", <<"X", "Z">>, 0),
                    TrainSnapshot("B", "FREIGHT", <<"Y", "Z">>, 0) >>),
      SnapshotOf(SnapshotParams(20, 0, 60, 120),
                 << TrainSnapshot("A", "FREIGHT", <<"X", "W">>, 0),
                    TrainSnapshot("B", "EXPRESS", <<"Z", "Y">>, 0) >>),
      SnapshotOf(SnapshotParams(20, 5, 60, 80),
                 << TrainSnapshot("A", "EXPRESS", <<"X", "Y">>, 1),
                    TrainSnapshot("B", "FREIGHT", <<"Y">>, 0) >>) }

\* optimize_from_sim(data): max_time_sec at least 60, headway_sec at least 0
OptimizeFromSim ==
    /\ opt = <<>>
    /\ \E data \in Snapshots :
        \E routes \in {BuildRoutes(data, 1)},
           headway \in {Max(0, data.params.headway_sec)},
           max_time_sec \in {Max(60, data.params.max_time_sec)} :
        \E feas \in {Feasible(routes, <<>>, 0, headway, max_time_sec)} :
        \E best \in {LeastObjective(routes, feas, max_time_sec)} :
        \E outcome \in SolverOutcomes(routes, feas, best, max_time_sec) :
            opt' = OptCall("optimize_from_sim", data, routes, headway,
                           max_time_sec, outcome,
                           HoldsFrom(data, ResultsOf(routes, outcome), 1))
    /\ UNCHANGED <<plan_obj, merges, runs, twins, served, aio, sim_vars>>

-----------------------------------------------------------------------------
(* reset() that raises.  topology.json is read at every reset(), so the file
   a later reset() finds need not be the one the engine was built from. *)

\* what reset() can find where it raises: a file it cannot open, a file
\* that is not a RailwayTopology, or a topology without a block of a route
ResetFaults ==
    {[kind |-> "unreadable", blocks |-> {}],
     [kind |-> "unparsable", blocks |-> {}],
     [kind |-> "unknown_block", blocks |-> BlockIds \ {"B11"}],
     [kind |-> "unknown_block", blocks |-> BlockIds \ {"B1"}]}

\* missing = [bid for bid in route if bid not in self.blocks]
missing(t, known) == {i \in 0..LastIndex(t) : RouteAt(t, i) \notin known}

\* _initialize_trains over a topology that lacks blocks: the roster is placed
\* in order up to the first train whose route names an unknown block
RECURSIVE InitializeTrainsUntilMissing(_, _, _, _, _)
InitializeTrainsUntilMissing(s, i, draws, now, dwell) ==
    IF i > Len(TrainOrder) \/ missing(TrainOrder[i], DOMAIN s.blocks) # {}
    THEN s
    ELSE LET t == TrainOrder[i]
             tr == NewTrain(s.blocks, t, draws[i], now, dwell)
         IN  InitializeTrainsUntilMissing(
                 [blocks |-> [s.blocks EXCEPT ![tr.current_block].occupied_by = t],
                  trains |-> (t :> tr) @@ s.trains],
                 i + 1, draws, now, dwell)

\* the engine holds the whole roster
RosterLoaded == DOMAIN trains = TrainIds

\* reset() raising: the statements run up to the raise keep their effect
ResetFails(may_call) ==
    /\ may_call
    /\ ops' = ops + 1
    /\ last_op' = "reset"
    /\ UNCHANGED plan_vars
    /\ returned' = Result(FALSE, <<>>)
    /\ \E fault \in ResetFaults :
        IF fault.kind # "unknown_block"
        THEN UNCHANGED <<status, completed, completion_emitted, sim_time,
                         tick_count, moved_this_tick, idle_ticks, headway_sec,
                         dwell_sec, event_counter, blocks, trains, active_plan,
                         holds_index>>
        ELSE \E draws \in RngDraws :
             \E s \in {InitializeTrainsUntilMissing(
                          [blocks |-> [b \in fault.blocks |-> FreshBlock],
                           trains |-> <<>>],
                          1, draws, 0, TopologyDwellSec)} :
                /\ sim_time' = 0
                /\ tick_count' = 0
                /\ event_counter' = 0
                /\ completed' = FALSE
                /\ completion_emitted' = FALSE
                /\ moved_this_tick' = FALSE
                /\ idle_ticks' = 0
                /\ active_plan' = Absent
                /\ holds_index' = << >>
                /\ status' = "IDLE"
                /\ blocks' = s.blocks
                /\ headway_sec' = TopologyHeadwaySec
                /\ dwell_sec' = TopologyDwellSec
                /\ trains' = s.trains
    /\ UNCHANGED <<simulation_speed, energy_stop_penalty, sim_task, http_code,
                   run_log>>

-----------------------------------------------------------------------------
(* Batch optimization endpoints of main.py, called on the live simulator *)

\* the fields of the module-level simulator
LiveEngine ==
    [status |-> status, completed |-> completed,
     completion_emitted |-> completion_emitted, sim_time |-> sim_time,
     tick_count |-> tick_count, moved_this_tick |-> moved_this_tick,
     idle_ticks |-> idle_ticks, headway_sec |-> headway_sec,
     dwell_sec |-> dwell_sec, simulation_speed |-> simulation_speed,
     event_counter |-> event_counter, blocks |-> blocks, trains |-> trains,
     active_plan |-> active_plan, holds_index |-> holds_index]

\* getattr(sim, "max_time_sec", 3600): the simulator has no such attribute
SnapshotMaxTimeSec == 3600

\* build_optimizer_input(sim): params, block summaries of the topology and
\* train summaries in the order of sim.trains
build_optimizer_input(e) ==
    [params |-> SnapshotParams(Max(0, e.dwell_sec), Max(0, e.headway_sec),
                               Max(60, SnapshotMaxTimeSec),
                               Max(1, TopologyDefaultSpeedKmh)),
     blocks |-> [b \in BlockIds |->
                   BlockSnapshot(IsStation(b), LengthM(b), MaxSpeedKmh(b))],
     trains |-> [k \in 1..Len(TrainOrder) |->
                   TrainSnapshot(TrainOrder[k], Priority(TrainOrder[k]),
                                 Route(TrainOrder[k]),
                                 e.trains[TrainOrder[k]].route_index)]]

\* start times that run the records k.. one after the other, headway apart
RECURSIVE SerialStarts(_, _, _, _)
SerialStarts(routes, k, at, headway) ==
    IF k > Len(routes) THEN <<>>
    ELSE <<at>> \o SerialStarts(routes, k + 1,
                                at + Duration(routes[k]) + headway, headway)

\* st is a solution of the CP-SAT model
Satisfies(routes, st, headway, max_time_sec) ==
    \A k \in DOMAIN routes :
        /\ st[k] + Duration(routes[k]) <= max_time_sec
        /\ Precedence(routes, st, k, st[k])
        /\ HeadwayDisjunctions(routes, st, k, st[k], headway)

\* The model of a whole roster has too many solutions to enumerate.  The
\* answers of solver.Solve that are explored for it: no solution within the
\* time limit (UNKNOWN), and the solution that runs the segments one after
\* the other (FEASIBLE).
SampledOutcomes(routes, headway, max_time_sec) ==
    {[status |-> "UNKNOWN", starts |-> <<>>]}
    \cup {[status |-> "FEASIBLE", starts |-> st] :
            st \in {x \in {SerialStarts(routes, 1, 0, headway)} :
                      Len(routes) > 0 /\ Satisfies(routes, x, headway, max_time_sec)}}

\* the plans optimize_from_sim(data) can return for a snapshot of the roster
PlansFromSim(data) ==
    { HoldsFrom(data, ResultsOf(BuildRoutes(data, 1), outcome), 1) :
        outcome \in SampledOutcomes(BuildRoutes(data, 1),
                                    Max(0, data.params.headway_sec),
                                    Max(60, data.params.max_time_sec)) }

\* to_plan_in_from_domain then to_domain_holds_from_plan_in: every directive
\* is rebuilt from its three fields, the offset through int()
to_domain_holds_from_plan_in(holds) ==
    [i \in DOMAIN holds |->
        Hold(holds[i].train_id, holds[i].block_id,
             ValueOf(holds[i].not_before_offset_sec))]

\* seeds_used = [seed + i for i in range(max(1, int(trials)))]
seeds_used(seed, trials) == [i \in 1..Max(1, trials) |-> seed + i - 1]

\* the while loop of run_to_completion: step() until completed, at most n times
RECURSIVE StepUntilCompleted(_, _)
StepUntilCompleted(e, n) ==
    IF e.completed \/ n = 0 THEN e
    ELSE IF n = 1 THEN EngineStep(e)
    ELSE CHOOSE r \in { StepUntilCompleted(half, n - (n \div 2)) :
                          half \in {StepUntilCompleted(e, n \div 2)} } : TRUE

\* the simulator of run_to_completion(plan, seed) when the loop has ended
RunToEnd(plan, seed) ==
    StepUntilCompleted(
        RunAdvance(RunAdvance(
            NewRun(CHOOSE d \in _rng(At(seed)) : TRUE, 0, plan))).sim,
        max_ticks)

\* the baseline and the optimized run of the seeds i.. of seeds
RECURSIVE TrialsFrom(_, _, _)
TrialsFrom(seeds, i, holds) ==
    IF i > Len(seeds) THEN <<>>
    ELSE << [baseline |-> RunToEnd(Absent, seeds[i]),
             optimized |-> RunToEnd(At(holds), seeds[i])] >>
         \o TrialsFrom(seeds, i + 1, holds)

\* mutant of RunSimulator: the batch run drives the module-level simulator
RunSimulatorLive == "live"

\* sim = RailwaySimulator(seed=seed): the object run_to_completion drives
RunSimulator == "batch"

\* the module-level simulator after the runs, the last of which left the
\* simulator it drove as final
LiveAfterRuns(live, final) == IF RunSimulator = "live" THEN final ELSE live

\* mutant of LifecycleConflict: no lifecycle guard
LifecycleConflictNever(st, force) == FALSE

\* if simulator.get_state_message().status != "COMPLETED" and not force
LifecycleConflict(st, force) == st # "COMPLETED" /\ ~force

\* nothing built yet by a batch endpoint
NothingServed ==
    [snapshots |-> 0, batch_runs |-> 0, plan |-> Absent,
     baseline |-> <<>>, optimized |-> <<>>]

\* the batch endpoints are explored once, on an engine that is not stepping
\* or has just been started
MayServe == served.snapshots = 0 /\ (tick_count <= OpWindow \/ status # "RUNNING")

\* POST /export_plan_input
HttpExportPlanInput ==
    /\ MayServe
    /\ last_op' = "POST /export_plan_input"
    /\ returned' = Result(TRUE, <<>>)
    /\ IF LifecycleConflict(status, FALSE)
       THEN /\ http_code' = 409
            /\ UNCHANGED served
       ELSE /\ http_code' = 200
            /\ \E data \in {build_optimizer_input(LiveEngine)} :
                  served' = [served EXCEPT !.snapshots = @ + 1]
    /\ UNCHANGED <<status, completed, completion_emitted, sim_time, tick_count,
                   moved_this_tick, idle_ticks, headway_sec, dwell_sec,
                   energy_stop_penalty, simulation_speed, event_counter, blocks,
                   trains, active_plan, holds_index, sim_task, run_log, ops,
                   plan_obj, merges, runs, twins, opt, aio>>

\* POST /optimize_plan
HttpOptimizePlan ==
    /\ MayServe
    /\ last_op' = "POST /optimize_plan"
    /\ returned' = Result(TRUE, <<>>)
    /\ IF LifecycleConflict(status, FALSE)
       THEN /\ http_code' = 409
            /\ UNCHANGED served
       ELSE /\ http_code' = 200
            /\ \E data \in {build_optimizer_input(LiveEngine)} :
               \E plan \in PlansFromSim(data) :
                  served' = [served EXCEPT !.snapshots = @ + 1,
                                           !.plan = At(plan)]
    /\ UNCHANGED <<status, completed, completion_emitted, sim_time, tick_count,
                   moved_this_tick, idle_ticks, headway_sec, dwell_sec,
                   energy_stop_penalty, simulation_speed, event_counter, blocks,
                   trains, active_plan, holds_index, sim_task, run_log, ops,
                   plan_obj, merges, runs, twins, opt, aio>>

\* seed, force and trials of the requests to /rerun-optimized
RerunSeed == 42
RerunTrials == {0, 2}

\* POST /rerun-optimized: snapshot, plan, then for every seed a baseline run
\* and a run with the plan, each on the simulator RunSimulator names
HttpRerunOptimized ==
    /\ MayServe
    /\ last_op' = "POST /rerun-optimized"
    /\ \E force \in BOOLEAN, trials \in RerunTrials :
        /\ returned' = ResultOf(TRUE, <<>>, [force |-> force, trials |-> trials])
        /\ IF LifecycleConflict(status, force)
           THEN /\ http_code' = 409
                /\ UNCHANGED <<status, completed, completion_emitted, sim_time,
                               tick_count, moved_this_tick, idle_ticks,
                               headway_sec, dwell_sec, simulation_speed,
                               event_counter, blocks, trains, active_plan,
                               holds_index, served>>
           ELSE \E data \in {build_optimizer_input(LiveEngine)} :
                \E plan \in PlansFromSim(data) :
                \E holds \in {to_domain_holds_from_plan_in(plan)} :
                \E trial \in {TrialsFrom(seeds_used(RerunSeed, trials), 1, holds)} :
                \E after \in {LiveAfterRuns(LiveEngine, trial[Len(trial)].optimized)} :
                \E a, b \in StartMicros :
                    /\ http_code' = 200
                    /\ served' = [snapshots |-> served.snapshots + 1,
                                  batch_runs |-> served.batch_runs + 2 * Len(trial),
                                  plan |-> At(plan),
                                  baseline |-> compute_metrics(trial[1].baseline, a),
                                  optimized |-> compute_metrics(trial[1].optimized, b)]
                    /\ status' = after.status
                    /\ completed' = after.completed
                    /\ completion_emitted' = after.completion_emitted
                    /\ sim_time' = after.sim_time
                    /\ tick_count' = after.tick_count
                    /\ moved_this_tick' = after.moved_this_tick
                    /\ idle_ticks' = after.idle_ticks
                    /\ headway_sec' = after.headway_sec
                    /\ dwell_sec' = after.dwell_sec
                    /\ simulation_speed' = after.simulation_speed
                    /\ event_counter' = after.event_counter
                    /\ blocks' = after.blocks
                    /\ trains' = after.trains
                    /\ active_plan' = after.active_plan
                    /\ holds_index' = after.holds_index
    /\ UNCHANGED <<energy_stop_penalty, sim_task, run_log, ops,
                   plan_obj, merges, runs, twins, opt, aio>>

-----------------------------------------------------------------------------
(* The event loop of main.py: simulation_loop tasks and the handlers of
   /start, /reset and /restart, each run from one await to the next.  A task
   is named by its place in aio.tasks; 0 stands for None. *)

\* no loop task was created and no request received
NoTasks == [sim_task |-> 0, tasks |-> <<>>, reqs |-> <<>>]

\* not t.done()
Alive(a, t) == a.tasks[t].pc # "done"

\* t is not None and not t.done(), for t = app.state.sim_task
is_sim_loop_running(a) == a.sim_task # 0 /\ Alive(a, a.sim_task)

\* start_simulation_loop(): create_task unless the referenced task is alive
start_simulation_loop(a) ==
    IF ~is_sim_loop_running(a)
    THEN [a EXCEPT !.tasks = Append(@, [pc |-> "ready", cancelling |-> FALSE]),
                   !.sim_task = Len(a.tasks) + 1]
    ELSE a

\* a handler of /reset or /restart suspended in "await t" of
\* stop_simulation_loop
Request(kind, t) == [kind |-> kind, t |-> t]

\* requests are explored up to MaxRequests, on an engine that is not running
\* or has just been started
MayRequest ==
    /\ ops < MaxRequests
    /\ (tick_count <= OpWindow \/ status # "RUNNING")

\* /reset and /restart are explored on an engine that has not completed
MayReset == MayRequest /\ status # "COMPLETED"

\* simulation_loop from the top of the while to its next suspension: the
\* final broadcast when simulator.completed, else step() and then the
\* broadcasts and asyncio.sleep, which a cancellation ends the same way
LoopIterate ==
    \E t \in DOMAIN aio.tasks :
        /\ aio.tasks[t].pc \in {"ready", "sleep"}
        /\ ~aio.tasks[t].cancelling
        /\ UNCHANGED <<plan_obj, merges, runs, twins, opt, served>>
        /\ IF completed
           THEN /\ aio' = [aio EXCEPT !.tasks[t].pc = "final"]
                /\ last_op' = "simulation_loop"
                /\ returned' = Result(TRUE, <<>>)
                /\ UNCHANGED <<status, completed, completion_emitted, sim_time,
                               tick_count, moved_this_tick, idle_ticks,
                               headway_sec, dwell_sec, energy_stop_penalty,
                               simulation_speed, event_counter, blocks, trains,
                               active_plan, holds_index, sim_task, http_code,
                               run_log, ops>>
           ELSE /\ aio' = [aio EXCEPT !.tasks[t].pc = "sleep"]
                /\ StepCall(TRUE)

\* the final broadcast is done: break, and the finally clause
LoopExit ==
    \E t \in DOMAIN aio.tasks :
        /\ aio.tasks[t].pc = "final"
        /\ ~aio.tasks[t].cancelling
        /\ aio' = [aio EXCEPT !.tasks[t].pc = "done", !.sim_task = 0]
        /\ sim_task' = FALSE
        /\ last_op' = "simulation_loop exit"
        /\ returned' = Result(TRUE, <<>>)
        /\ UNCHANGED <<plan_obj, merges, runs, twins, opt, served>>
        /\ UNCHANGED <<status, completed, completion_emitted, sim_time,
                       tick_count, moved_this_tick, idle_ticks, headway_sec,
                       dwell_sec, energy_stop_penalty, simulation_speed,
                       event_counter, blocks, trains, active_plan, holds_index,
                       http_code, run_log, ops>>

\* a cancelled task is resumed: CancelledError at its await, then the finally
\* clause; a task cancelled before it first ran never enters its try block
LoopCancelled ==
    \E t \in DOMAIN aio.tasks :
        /\ aio.tasks[t].pc # "done"
        /\ aio.tasks[t].cancelling
        /\ \E a \in {[aio EXCEPT !.tasks[t].pc = "done",
                                 !.sim_task = IF aio.tasks[t].pc = "ready"
                                              THEN @ ELSE 0]} :
              /\ aio' = a
              /\ sim_task' = is_sim_loop_running(a)
        /\ last_op' = "simulation_loop cancelled"
        /\ returned' = Result(TRUE, <<>>)
        /\ UNCHANGED <<plan_obj, merges, runs, twins, opt, served>>
        /\ UNCHANGED <<status, completed, completion_emitted, sim_time,
                       tick_count, moved_this_tick, idle_ticks, headway_sec,
                       dwell_sec, energy_stop_penalty, simulation_speed,
                       event_counter, blocks, trains, active_plan, holds_index,
                       http_code, run_log, ops>>

\* POST /start: 409 when COMPLETED, else start() and start_simulation_loop();
\* the broadcast it then awaits and its return change nothing
PostStart ==
    /\ MayRequest
    /\ ops' = ops + 1
    /\ last_op' = "POST /start"
    /\ returned' = Result(TRUE, <<>>)
    /\ UNCHANGED <<plan_obj, merges, runs, twins, opt, served>>
    /\ IF StartRejected(status)
       THEN /\ http_code' = 409
            /\ UNCHANGED <<status, sim_task, aio>>
       ELSE /\ http_code' = 200
            /\ status' = StatusAfterStart(status)
            /\ aio' = start_simulation_loop(aio)
            /\ sim_task' = TRUE
    /\ UNCHANGED <<completed, completion_emitted, sim_time, tick_count,
                   moved_this_tick, idle_ticks, headway_sec, dwell_sec,
                   energy_stop_penalty, simulation_speed, event_counter, blocks,
                   trains, active_plan, holds_index, run_log>>

\* the handler of /reset or /restart from the last line of
\* stop_simulation_loop (app.state.sim_task = None) on; the broadcast it then
\* awaits and its return change nothing
ResetNow(kind, a) ==
    /\ last_op' = IF kind = "restart" THEN "POST /restart" ELSE "POST /reset"
    /\ http_code' = 200
    /\ returned' = Result(TRUE, <<>>)
    /\ \E draws \in RngDraws : ResetFields(draws)
    /\ \E a0 \in {[a EXCEPT !.sim_task = 0]} :
          IF kind = "restart"
          THEN /\ status' = StatusAfterStart("IDLE")
               /\ aio' = start_simulation_loop(a0)
               /\ sim_task' = TRUE
          ELSE /\ status' = "IDLE"
               /\ aio' = a0
               /\ sim_task' = FALSE

\* POST /reset or POST /restart received.  stop_simulation_loop up to
\* "await t": the referenced task, if alive, is cancelled and awaited;
\* otherwise the handler goes on without suspending
PostResetOrRestart ==
    \E kind \in {"reset", "restart"} :
        /\ MayReset
        /\ ops' = ops + 1
        /\ UNCHANGED <<plan_obj, merges, runs, twins, opt, served>>
        /\ IF is_sim_loop_running(aio)
           THEN /\ aio' = [aio EXCEPT
                             !.tasks[aio.sim_task].cancelling = TRUE,
                             !.reqs = Append(@, Request(kind, aio.sim_task))]
                /\ last_op' = "stop_simulation_loop"
                /\ returned' = Result(TRUE, <<>>)
                /\ UNCHANGED <<status, completed, completion_emitted, sim_time,
                               tick_count, moved_this_tick, idle_ticks,
                               headway_sec, dwell_sec, energy_stop_penalty,
                               simulation_speed, event_counter, blocks, trains,
                               active_plan, holds_index, sim_task, http_code,
                               run_log>>
           ELSE ResetNow(kind, aio)

\* the awaited task is done: the handler of /reset or /restart goes on
StopLoopResumed ==
    \E r \in DOMAIN aio.reqs :
        /\ ~Alive(aio, aio.reqs[r].t)
        /\ UNCHANGED <<plan_obj, merges, runs, twins, opt, served, ops>>
        /\ ResetNow(aio.reqs[r].kind,
                    [aio EXCEPT !.reqs = SubSeq(@, 1, r - 1)
                                           \o SubSeq(@, r + 1, Len(@))])

-----------------------------------------------------------------------------
(* Specifications *)

\* the engine after construction and the startup reset()
Init ==
    /\ \E draws \in RngDraws :
        LET s == AfterReset(draws)
        IN  /\ blocks = s.blocks
            /\ trains = s.trains
    /\ status = "IDLE"
    /\ completed = FALSE
    /\ completion_emitted = FALSE
    /\ sim_time = 0
    /\ tick_count = 0
    /\ moved_this_tick = FALSE
    /\ idle_ticks = 0
    /\ headway_sec = TopologyHeadwaySec
    /\ dwell_sec = TopologyDwellSec
    /\ energy_stop_penalty = 0
    /\ simulation_speed = InitialSpeedTenths
    /\ event_counter = 0
    /\ active_plan = Absent
    /\ holds_index = << >>
    /\ sim_task = FALSE
    /\ http_code = 0
    /\ last_op = "reset"
    /\ returned = Result(TRUE, <<>>)
    /\ run_log = EmptyLog(trains)
    /\ ops = 0
    /\ plan_obj = <<>>
    /\ merges = <<>>
    /\ runs = <<>>
    /\ twins = <<>>
    /\ opt = <<>>
    /\ served = NothingServed
    /\ aio = NoTasks

\* Spec: the engine's calls, a bounded number of ticks.  A start() that
\* leaves IDLE is free; every other control call counts against the bound.
MayCall == ops < MaxOps
MayTick == tick_count < MaxTicks

Next ==
    \/ Step(MayTick)
    \/ Start(MayCall)
    \/ Reset(MayCall)
    \/ UpdateParameters(MayCall)
    \/ InjectDelay(MayCall)
    \/ SetBlockIssue(MayCall)
    \/ ApplyPlan(MayCall)
    \/ ClearPlan(MayCall)

Spec == Init /\ [][Next]_vars

\* SpecFuse: runs stepped to their end, with the lifecycle endpoints; step()
\* is called again and again
MayCallEarly == ops < FuseOps /\ (tick_count <= OpWindow \/ status # "RUNNING")

NextFuse ==
    \/ Step(TRUE)
    \/ Start(MayCallEarly)
    \/ Reset(MayCallEarly)
    \/ UpdateParameters(MayCallEarly)
    \/ InjectDelay(MayCallEarly)
    \/ SetBlockIssue(MayCallEarly)
    \/ ApplyPlan(MayCallEarly)
    \/ ClearPlan(MayCallEarly)
    \/ HttpStart(MayCallEarly)
    \/ HttpReset(MayCallEarly)
    \/ HttpApplyPlan(MayCallEarly)
    \/ SimulationLoopExit

SpecFuse == Init /\ [][NextFuse]_vars /\ WF_vars(Step(TRUE))

\* SpecPlan: Plans are built hold by hold and merged
NextPlan ==
    \/ AddHold
    \/ CallMerged

SpecPlan == Init /\ [][NextPlan]_vars

\* SpecAB: paired batch runs, statement by statement
NextAB ==
    \/ BeginRuns
    \/ AdvanceRuns

SpecAB == Init /\ [][NextAB]_vars

\* SpecTwin: two instances of one seed, called in step
NextTwin ==
    \/ BeginTwins
    \/ StartTwins
    \/ StepTwins

SpecTwin == Init /\ [][NextTwin]_vars

\* SpecOpt: calls of the dispatch optimizer
NextOpt ==
    \/ Optimize
    \/ OptimizeFromSim

SpecOpt == Init /\ [][NextOpt]_vars

\* SpecRerun: a live run stepped to its end, with the batch endpoints
NextRerun ==
    \/ Start(MayCallEarly /\ served.snapshots = 0)
    \/ Step(served.snapshots = 0)
    \/ HttpExportPlanInput
    \/ HttpOptimizePlan
    \/ HttpRerunOptimized

SpecRerun == Init /\ [][NextRerun]_vars

\* SpecReset: the engine's calls with reset() finding any topology file; an
\* engine without its whole roster is not stepped
NextReset ==
    \/ Step(MayTick /\ RosterLoaded)
    \/ Start(MayCall)
    \/ Reset(MayCall)
    \/ ResetFails(MayCall)
    \/ ApplyPlan(MayCall)

SpecReset == Init /\ [][NextReset]_vars

\* SpecLoop: the handlers of /start, /reset and /restart interleaved with the
\* simulation_loop tasks
NextLoop ==
    \/ LoopIterate
    \/ LoopExit
    \/ LoopCancelled
    \/ PostStart
    \/ PostResetOrRestart
    \/ StopLoopResumed

SpecLoop == Init /\ [][NextLoop]_vars

-----------------------------------------------------------------------------
(* Properties *)

\* the engine fields a call that "changes nothing" must leave alone
engine == <<status, completed, completion_emitted, sim_time, tick_count,
            moved_this_tick, idle_ticks, headway_sec, dwell_sec,
            energy_stop_penalty, simulation_speed, event_counter, blocks, trains,
            active_plan, holds_index>>

\* train t has finished its block and has a next block
ReadyToMove(t) ==
    /\ sim_time >= trains[t].will_exit_at
    /\ trains[t].route_index < LastIndex(t)

\* train t was refused at a gate on the tick that just ran
WaitedThisTick(t) ==
    /\ last_op = "step"
    /\ status = "RUNNING"
    /\ tick_count > 0
    /\ ReadyToMove(t)
    /\ trains[t].waiting_sec > 0

\* C1: no two trains have the same current_block, and the current block of
\* every train is marked occupied by that train.
C1_BlockMutualExclusion ==
    /\ \A t1, t2 \in TrainIds :
          t1 # t2 => trains[t1].current_block # trains[t2].current_block
    /\ \A t \in TrainIds : blocks[trains[t].current_block].occupied_by = t

\* a train waits in front of an occupied block while other trains have moved
C1_Witness ==
    /\ run_log.entries # {}
    /\ \E t \in TrainIds :
          /\ WaitedThisTick(t)
          /\ blocks[trains[t].next_block].occupied_by # None

\* C2: an entry into a block comes at least headway_sec (the value at the
\* tick of entry) after every earlier exit from that block.
C2_Headway ==
    \A e \in run_log.entries : \A x \in run_log.exits :
        (x.block = e.block /\ x.time <= e.time)
            => e.time - x.time >= Sec(e.headway)

\* a train entered a block another train had left, under a positive headway,
\* on the first tick the headway allowed
C2_Witness ==
    \E e \in run_log.entries : \E x \in run_log.exits :
        /\ x.block = e.block
        /\ x.time < e.time
        /\ e.headway > 0
        /\ e.time - x.time < Sec(e.headway) + TickUnits(simulation_speed)

\* C3: a train never enters a block on a tick whose sim_time is before the
\* deadline that holds_index has for that train and block on that tick.
C3_PlanGating ==
    \A e \in run_log.entries : IsSet(e.hold) => e.time >= ValueOf(e.hold)

\* a train that could enter its next block but for the plan waits for the
\* deadline of its hold
C3_Witness ==
    \E t \in TrainIds :
        /\ WaitedThisTick(t)
        /\ <<t, trains[t].next_block>> \in DOMAIN holds_index
        /\ sim_time < holds_index[<<t, trains[t].next_block>>]
        /\ _can_enter_next_block(blocks, trains[t].next_block, sim_time, headway_sec)

\* C4: step() never moves a train into a block whose issue is set.
C4_IssueBlocksEntry ==
    \A e \in run_log.entries : e.issue = None

\* a train waits in front of a free block only because the block has an issue
C4_Witness ==
    \E t \in TrainIds :
        /\ WaitedThisTick(t)
        /\ blocks[trains[t].next_block].issue # None
        /\ blocks[trains[t].next_block].occupied_by = None
        /\ ~IsSet(blocks[trains[t].next_block].last_exit_time)

\* C5: the status changes only by reset() to IDLE, by start() from IDLE to
\* RUNNING and by step() from RUNNING to COMPLETED; reset() always gives IDLE.
C5_StatusTransitions ==
    [][/\ status' # status =>
            \/ /\ last_op' \in {"reset", "POST /reset"}
               /\ status' = "IDLE"
            \/ /\ last_op' \in {"start", "POST /start"}
               /\ status = "IDLE"
               /\ status' = "RUNNING"
            \/ /\ last_op' = "step"
               /\ status = "RUNNING"
               /\ status' = "COMPLETED"
       /\ last_op' \in {"reset", "POST /reset"} => status' = "IDLE"]_vars

\* start() was called on a COMPLETED engine, which stayed COMPLETED
C5_Witness ==
    /\ status = "COMPLETED"
    /\ last_op = "start"

\* C6: step() on an IDLE or COMPLETED engine returns no event and leaves the
\* clock, the counters, the trains and the blocks unchanged.
C6_StepNoOpUnlessRunning ==
    [][(last_op' = "step" /\ status \in {"IDLE", "COMPLETED"}) =>
            /\ returned'.events = <<>>
            /\ UNCHANGED <<sim_time, tick_count, idle_ticks, trains, blocks,
                           event_counter, status, completed>>]_vars

\* step() was called after the tick that completed the run
C6_Witness ==
    /\ status = "COMPLETED"
    /\ last_op = "step"
    /\ returned.events = <<>>
    /\ tick_count > 0

\* C7: the number of SIMULATION_COMPLETED events returned in the run is 1
\* when the status is COMPLETED and 0 otherwise.
C7_CompletionOnce ==
    run_log.completions = IF status = "COMPLETED" THEN 1 ELSE 0

\* the completing tick returned the event last, after a tick that moved trains
C7_Witness ==
    /\ status = "COMPLETED"
    /\ last_op = "step"
    /\ returned.events # <<>>
    /\ returned.events[Len(returned.events)].event_kind = "SIMULATION_COMPLETED"
    /\ run_log.completions = 1
    /\ run_log.entries # {}

\* C8: a RUNNING engine whose step() keeps being called reaches COMPLETED,
\* unless reset() takes it back to IDLE first.
C8_RunTerminates ==
    (status = "RUNNING") ~> (status = "COMPLETED" \/ status = "IDLE")

\* a run completed although a block issue was never cleared
C8_Witness ==
    /\ status = "COMPLETED"
    /\ \E b \in BlockIds :
          /\ blocks[b].issue # None
          /\ ValueOf(blocks[b].issue_since) = 0

\* C9: the idle counter is the number of consecutive ticks without a move;
\* a RUNNING engine has fewer than idle_limit of them, and a run that
\* completed with trains short of their last block did so on the
\* idle_limit-th, returning SIMULATION_COMPLETED without error.
C9_IdleFuse ==
    /\ idle_ticks = run_log.no_move_ticks
    /\ status = "RUNNING" => run_log.no_move_ticks < idle_limit
    /\ (status = "COMPLETED" /\ ~_is_completed(trains, sim_time)) =>
            run_log.no_move_ticks = idle_limit
    /\ (status = "COMPLETED" /\ last_op = "step" /\ returned.events # <<>>) =>
            /\ returned.ok
            /\ returned.events[Len(returned.events)].event_kind
                    = "SIMULATION_COMPLETED"

\* the fuse ended a run in which trains had moved, so the count had been reset
C9_Witness ==
    /\ status = "COMPLETED"
    /\ last_op = "step"
    /\ returned.events # <<>>
    /\ run_log.no_move_ticks = idle_limit
    /\ run_log.entries # {}
    /\ tick_count > idle_limit

\* C10: start() on a RUNNING or COMPLETED engine changes no engine field;
\* POST /start on a COMPLETED engine answers 409, changes no engine field and
\* leaves sim_task alone; a COMPLETED engine is never RUNNING in the next state.
C10_StartGuard ==
    [][/\ (last_op' = "start" /\ status \in {"RUNNING", "COMPLETED"})
            => UNCHANGED engine
       /\ (last_op' = "POST /start" /\ status = "COMPLETED")
            => (http_code' = 409 /\ UNCHANGED engine /\ UNCHANGED sim_task)
       /\ status = "COMPLETED" => status' # "RUNNING"]_vars

\* POST /start was refused on a COMPLETED engine whose loop had ended
C10_Witness ==
    /\ status = "COMPLETED"
    /\ last_op = "POST /start"
    /\ http_code = 409
    /\ ~sim_task

\* the calls that begin a new run
ResetOps == {"reset", "POST /reset"}

\* C11: a call other than reset() never decreases the route_index or the
\* delay_minutes of a train, nor sim_time.
C11_Monotonic ==
    [][last_op' \notin ResetOps =>
            /\ \A t \in TrainIds :
                  /\ trains'[t].route_index >= trains[t].route_index
                  /\ trains'[t].delay_minutes >= trains[t].delay_minutes
            /\ sim_time' >= sim_time]_vars

\* inject_delay was called with negative minutes in a run whose trains had
\* moved
C11_Witness ==
    /\ last_op = "inject_delay"
    /\ returned.ok
    /\ returned.arg[2] < 0
    /\ tick_count > 0
    /\ run_log.entries # {}

\* C12: a step() on a RUNNING engine that is not completed adds
\* base_tick_sec * simulation_speed (speed in tenths, time in half seconds)
\* to sim_time and 1 to tick_count; only step() and reset() change sim_time.
C12_TickAdvance ==
    [][/\ (last_op' = "step" /\ status = "RUNNING" /\ ~completed) =>
            /\ 10 * (sim_time' - sim_time) = Sec(base_tick_sec) * simulation_speed
            /\ tick_count' = tick_count + 1
       /\ last_op' \notin (ResetOps \cup {"step"}) => sim_time' = sim_time]_vars

\* a tick ran at a speed that update_parameters had changed during the run
C12_Witness ==
    /\ last_op = "step"
    /\ status = "RUNNING"
    /\ simulation_speed # InitialSpeedTenths
    /\ tick_count > 1
    /\ sim_time # tick_count * TickUnits(simulation_speed)
    /\ sim_time # tick_count * TickUnits(InitialSpeedTenths)

\* C13: for every train in a station block, will_exit_at - entered_block_at
\* is the current dwell_sec.
C13_DwellInvariant ==
    \A t \in TrainIds :
        IsStation(trains[t].current_block) =>
            trains[t].will_exit_at - trains[t].entered_block_at = Sec(dwell_sec)

\* C14: the delay_minutes of a train, less the minutes it was given by
\* _initialize_trains and inject_delay, is the whole-minute part of the time
\* it has been refused at gates in the run.
C14_DelayIsWaitedMinutes ==
    \A t \in TrainIds :
        trains[t].delay_minutes - run_log.given[t] = run_log.waited[t] \div Sec(60)

\* C15: inject_delay with a train id the engine does not have, and
\* set_block_issue with a block id it does not have, raise, return no event
\* and leave every engine field (the event counter, the trains and the blocks
\* among them) unchanged.
C15_UnknownIdRejected ==
    [][/\ (last_op' = "inject_delay" /\ returned'.arg[1] \notin TrainIds) =>
            (~returned'.ok /\ returned'.events = <<>> /\ UNCHANGED engine)
       /\ (last_op' = "set_block_issue" /\ returned'.arg[1] \notin BlockIds) =>
            (~returned'.ok /\ returned'.events = <<>> /\ UNCHANGED engine)]_vars

\* inject_delay raised for the unknown train T9 during a run
C15_Witness ==
    /\ last_op = "inject_delay"
    /\ ~returned.ok
    /\ returned.arg[1] = "T9"
    /\ returned.arg[2] > 0
    /\ status = "RUNNING"
    /\ run_log.entries # {}

\* the calls that apply a plan
ApplyOps == {"apply_plan", "POST /apply_plan"}

\* a directive of the plan names a train or a block the engine does not have
NamesUnknownId(holds) ==
    \E i \in 1..Len(holds) :
        holds[i].train_id \notin TrainIds \/ holds[i].block_id \notin BlockIds

\* C16: applying a plan with a directive that names an unknown train or block
\* is rejected with an error and leaves active_plan and holds_index as they
\* were.
C16_UnknownIdsInPlanRejected ==
    [][(last_op' \in ApplyOps /\ NamesUnknownId(returned'.arg)) =>
            (~returned'.ok /\ UNCHANGED <<active_plan, holds_index>>)]_vars

\* the plan has at most one directive per key, each with an int offset
OneDirectivePerKey(holds) ==
    /\ \A i, j \in 1..Len(holds) : KeyOf(holds[i]) = KeyOf(holds[j]) => i = j
    /\ \A i \in 1..Len(holds) : IsSet(holds[i].not_before_offset_sec)

\* C17: apply_plan at sim_time T with at most one directive per key leaves in
\* holds_index exactly the keys of the plan, each at T + its offset, whatever
\* plan was applied before; step() does not change holds_index.
C17_IndexOfAppliedPlan ==
    [][/\ (last_op' = "apply_plan" /\ OneDirectivePerKey(returned'.arg)) =>
            LET holds == returned'.arg
            IN  /\ DOMAIN holds_index' = {KeyOf(holds[i]) : i \in 1..Len(holds)}
                /\ \A i \in 1..Len(holds) :
                      holds_index'[KeyOf(holds[i])] =
                        sim_time + Sec(ValueOf(holds[i].not_before_offset_sec))
       /\ last_op' = "step" => holds_index' = holds_index]_vars

\* a second plan of the run was applied after the clock had moved, and the
\* index holds its single deadline
C17_Witness ==
    /\ last_op = "apply_plan"
    /\ run_log.applied = 2
    /\ sim_time > 0
    /\ returned.arg = <<Hold("T3", "B8", 30)>>
    /\ DOMAIN holds_index = {<<"T3", "B8">>}
    /\ holds_index[<<"T3", "B8">>] = sim_time + Sec(30)

\* a malformed directive: its offset is not an integer, or is negative
Malformed(h) ==
    \/ ~IsSet(h.not_before_offset_sec)
    \/ ValueOf(h.not_before_offset_sec) < 0

\* C18: applying a plan with a malformed directive raises no error, makes no
\* holds_index entry for that directive and indexes every other directive.
C18_MalformedSkipped ==
    [][(/\ last_op' \in ApplyOps
        /\ \E i \in 1..Len(returned'.arg) : Malformed(returned'.arg[i])) =>
            LET holds == returned'.arg
                good == {i \in 1..Len(holds) : ~Malformed(holds[i])}
            IN  /\ returned'.ok
                /\ DOMAIN holds_index' = {KeyOf(holds[i]) : i \in good}]_vars

\* the directives of a list of holds, as a set
HoldSet(holds) == {holds[i] : i \in 1..Len(holds)}

\* m has one directive for every key of src and no other, with the largest
\* offset src has for that key
KeepsMaxPerKey(src, m) ==
    /\ {KeyOf(h) : h \in HoldSet(m)} = {KeyOf(h) : h \in HoldSet(src)}
    /\ \A i, j \in 1..Len(m) : KeyOf(m[i]) = KeyOf(m[j]) => i = j
    /\ \A h \in HoldSet(m) :
          /\ h \in HoldSet(src)
          /\ \A g \in HoldSet(src) :
                KeyOf(g) = KeyOf(h) => OffsetOf(g) <= OffsetOf(h)

\* C19: merged() returns one directive per key of the plan, with the largest
\* offset of that key; merged() of the result has the same directives; the
\* plan it is called on is not modified.
C19_Merged ==
    [][Len(merges') > Len(merges) =>
            LET src == IF merges = <<>> THEN plan_obj ELSE merges[Len(merges)]
                m == merges'[Len(merges')]
            IN  /\ KeepsMaxPerKey(src, m)
                /\ merges # <<>> => HoldSet(m) = HoldSet(src)
                /\ plan_obj' = plan_obj
                /\ \A n \in 1..Len(merges) : merges'[n] = merges[n]]_vars

\* merged() was called twice on a plan in which a key has a larger offset
\* before a smaller one, and another key has one directive
C19_Witness ==
    /\ Len(merges) = 2
    /\ Len(plan_obj) = 3
    /\ Len(merges[1]) = 2
    /\ \E i, j \in 1..Len(plan_obj) :
          /\ i < j
          /\ KeyOf(plan_obj[i]) = KeyOf(plan_obj[j])
          /\ OffsetOf(plan_obj[i]) > OffsetOf(plan_obj[j])

\* the two runs of the pair have simulators in the same state
SameRunStates ==
    LET a == runs.with_plan.sim
        b == runs.baseline.sim
    IN  /\ a.trains = b.trains
        /\ a.blocks = b.blocks
        /\ a.status = b.status
        /\ a.completed = b.completed
        /\ a.tick_count = b.tick_count
        /\ a.sim_time = b.sim_time
        /\ runs.with_plan.pc = runs.baseline.pc
        /\ runs.with_plan.ticks = runs.baseline.ticks

\* C20: a run with an empty Plan applied and a run without plan, on the same
\* seed, have the same trains, blocks and lifecycle state at every tick and
\* report the same metrics.
C20_EmptyPlanSameAsBaseline ==
    runs # <<>> =>
        /\ SameRunStates
        /\ runs.with_plan.metrics = runs.baseline.metrics

Solved == opt # <<>> /\ opt.status \in {"OPTIMAL", "FEASIBLE"}

\* two records of one block are kept headway apart, one before the other
HeadwayApart(routes, st, en, headway) ==
    \A i, j \in DOMAIN routes :
        (i < j /\ routes[i].block_id = routes[j].block_id) =>
            \/ st[j] >= en[i] + headway
            \/ st[i] >= en[j] + headway

\* C25: in every schedule that optimize returns, two distinct segments on
\* the same block are separated by the headway, whatever headway_sec >= 0
\* is, so that two segments on one block never overlap in time.
C25_HeadwaySeparation ==
    Solved =>
        HeadwayApart(opt.routes, opt.starts, EndsOf(opt.routes, opt.starts),
                     opt.headway_sec)

\* the duration the segment of a record is to have: max(1, dwell or travel)
DurationMin1(trb) ==
    Max(1, IF trb.is_station THEN trb.dwell_sec ELSE trb.travel_sec)

\* the greatest value of a non-empty set of integers
Greatest(vals) == CHOOSE v \in vals : \A w \in vals : v >= w

\* the makespans of the schedules within the horizon that keep route
\* precedence and per-block headway with the durations DurationMin1
MakespansMin1(routes, headway, max_time_sec) ==
    { Greatest({0} \cup {st[i] + DurationMin1(routes[i]) : i \in DOMAIN routes}) :
        st \in { f \in [DOMAIN routes -> 0..max_time_sec] :
                   LET en == [i \in DOMAIN routes |-> f[i] + DurationMin1(routes[i])]
                   IN  /\ \A i \in DOMAIN routes : en[i] <= max_time_sec
                       /\ \A i, j \in DOMAIN routes :
                             FollowsInTrain(routes, i, j) => f[j] >= en[i]
                       /\ HeadwayApart(routes, f, en, headway) } }

\* C26: when the solver reports an optimal solution, every segment lasts
\* max(1, dwell_sec if is_station else travel_sec) and the makespan of the
\* returned schedule is the least among all schedules that satisfy route
\* precedence and per-block headway within the horizon.
C26_MinimalMakespan ==
    (opt # <<>> /\ opt.status = "OPTIMAL") =>
        /\ \A i \in DOMAIN opt.routes :
              EndsOf(opt.routes, opt.starts)[i] - opt.starts[i]
                  = DurationMin1(opt.routes[i])
        /\ \A m \in MakespansMin1(opt.routes, opt.headway_sec, opt.max_time_sec) :
              makespan(opt.routes, opt.starts) <= m

\* the last optimizer call was optimize_from_sim on a snapshot
FromSim == opt # <<>> /\ opt.call = "optimize_from_sim"

SnapshotTrains == {opt.data.trains[k] : k \in DOMAIN opt.data.trains}

NotAtTerminus(t) == t.route_index < Len(t.route) - 1

DirectivesOf(t) == {i \in DOMAIN opt.plan : opt.plan[i].train_id = t.id}

\* C24: optimize_from_sim returns at most one directive per train; a train
\* not at its terminus whose first scheduled segment starts at s has the
\* directive (train, route[route_index + 1], s) iff s > 0; a train at its
\* terminus has none; and without a schedule the plan is empty.
C24_HoldsOfPlan ==
    FromSim =>
        /\ \A t \in SnapshotTrains : Cardinality(DirectivesOf(t)) <= 1
        /\ \A t \in SnapshotTrains :
              (NotAtTerminus(t) /\ t.id \in DOMAIN opt.schedule) =>
                  ((\E i \in DOMAIN opt.plan :
                        opt.plan[i] = Hold(t.id, t.route[t.route_index + 2],
                                           opt.schedule[t.id][1][1]))
                   <=> opt.schedule[t.id][1][1] > 0)
        /\ \A t \in SnapshotTrains : ~NotAtTerminus(t) => DirectivesOf(t) = {}
        /\ opt.schedule = <<>> => opt.plan = <<>>

C24_Witness ==
    /\ FromSim
    /\ opt.status = "OPTIMAL"
    /\ Len(opt.plan) = 1
    /\ \E t \in SnapshotTrains :
          /\ NotAtTerminus(t)
          /\ t.id \in DOMAIN opt.schedule
          /\ opt.schedule[t.id][1][1] = 0
    /\ \E t \in SnapshotTrains :
          /\ NotAtTerminus(t)
          /\ t.id \in DOMAIN opt.schedule
          /\ opt.schedule[t.id][1][1] > 0

\* the blocks of the records that routes holds for the train id, in order
BlocksOfTrain(routes, id) ==
    LET Mine(r) == r.train_id = id
    IN  [i \in 1..Len(SelectSeq(routes, Mine)) |->
            SelectSeq(routes, Mine)[i].block_id]

\* C27 as stated: for each train of the snapshot the records run from
\* clamp(route_index, 0, |route| - 1) through the last index, in route
\* order, so the first record is the block the train is on.
C27_RecordsFromCurrentBlock ==
    FromSim =>
        \A t \in SnapshotTrains :
            BlocksOfTrain(opt.routes, t.id)
                = SubSeq(t.route, Max(0, Min(t.route_index, Len(t.route) - 1)) + 1,
                         Len(t.route))

\* C27 amended: for each train of the snapshot the records run from
\* route_index + 1 through the last index, in route order: the first record
\* is the train's next block, and a train on its last block has no record.
C27_RecordsFromNextBlock ==
    FromSim =>
        \A t \in SnapshotTrains :
            BlocksOfTrain(opt.routes, t.id)
                = SubSeq(t.route, t.route_index + 2, Len(t.route))

C27_Witness ==
    /\ FromSim
    /\ \E t \in SnapshotTrains :
          /\ t.route_index >= 1
          /\ NotAtTerminus(t)
          /\ Len(BlocksOfTrain(opt.routes, t.id)) = 1
    /\ \E t \in SnapshotTrains :
          /\ ~NotAtTerminus(t)
          /\ BlocksOfTrain(opt.routes, t.id) = <<>>


\* the three batch endpoints
BatchEndpoints ==
    {"POST /export_plan_input", "POST /optimize_plan", "POST /rerun-optimized"}

\* C22: a call of rerun_optimized that is served leaves the live engine as
\* it was: status, sim_time, tick count, trains, blocks, active plan,
\* holds_index and event counter
C22_RerunLeavesLiveEngine ==
    [][(last_op' = "POST /rerun-optimized" /\ http_code' = 200)
        => UNCHANGED <<status, sim_time, tick_count, trains, blocks,
                       active_plan, holds_index, event_counter>>]_vars

\* a forced rerun on a running engine has run its four batch simulations
\* with a plan that holds trains
C22_Witness ==
    /\ last_op = "POST /rerun-optimized"
    /\ http_code = 200
    /\ returned.arg.force
    /\ status = "RUNNING"
    /\ served.batch_runs = 4
    /\ IsSet(served.plan)
    /\ Len(ValueOf(served.plan)) > 0
    /\ served.optimized.duration_sec > 0

\* C23: export_plan_input and optimize_plan called when the status is not
\* COMPLETED, and rerun_optimized called so without force, answer with the
\* lifecycle conflict (409), build no snapshot, run no batch simulation and
\* change no field of the engine
C23_LifecycleConflictRejects ==
    [][(/\ last_op' \in BatchEndpoints
        /\ status # "COMPLETED"
        /\ ~(last_op' = "POST /rerun-optimized" /\ returned'.arg.force))
        => /\ http_code' = 409
           /\ UNCHANGED served
           /\ UNCHANGED engine]_vars

\* rerun_optimized without force was refused on a running engine
C23_Witness ==
    /\ last_op = "POST /rerun-optimized"
    /\ http_code = 409
    /\ ~returned.arg.force
    /\ status = "RUNNING"
    /\ served = NothingServed


\* C28: a reset() that raises leaves the engine in the state it had before
\* the call: status, sim_time, blocks, trains, active plan, holds_index and
\* the counters
C28_FailedResetKeepsState ==
    [][(last_op' = "reset" /\ ~returned'.ok)
        => UNCHANGED <<status, sim_time, tick_count, event_counter, blocks,
                       trains, active_plan, holds_index>>]_vars


\* a finished batch run reports the sim time of its ticks, in whole seconds
ReportsTickTime(r) ==
    IsSet(r.metrics) =>
        Sec(ValueOf(r.metrics).duration_sec)
            = r.ticks * TickUnits(r.sim.simulation_speed)

\* C29: a batch run of N ticks of tau seconds each reports duration_sec =
\* N * tau, whatever the part of its initial sim_time below the millisecond
C29_DurationIsTickTime ==
    runs # <<>> => ReportsTickTime(runs.baseline) /\ ReportsTickTime(runs.with_plan)


\* the value a parameter has after update_parameters was given field: the
\* clamped value when the field is provided, else the value it had
Provided(field, clamped, before, after) ==
    IF IsSet(field) THEN after = clamped ELSE after = before

\* C30: every update_parameters call returns normally and leaves
\* headway_sec >= 0, dwell_sec >= 0 and simulation_speed within [0.1, 10.0];
\* a provided value out of range is moved to the nearest bound, a value in
\* range is taken, a field not provided keeps its value; no train, block,
\* clock or lifecycle field changes.
C30_ParametersClamped ==
    [][last_op' = "update_parameters" =>
        LET control == returned'.arg
        IN  /\ returned'.ok
            /\ headway_sec' >= 0
            /\ dwell_sec' >= 0
            /\ simulation_speed' >= MinSpeedTenths
            /\ simulation_speed' <= MaxSpeedTenths
            /\ Provided(control.headway_sec,
                        IF ValueOf(control.headway_sec) < 0 THEN 0
                        ELSE ValueOf(control.headway_sec),
                        headway_sec, headway_sec')
            /\ Provided(control.dwell_sec,
                        IF ValueOf(control.dwell_sec) < 0 THEN 0
                        ELSE ValueOf(control.dwell_sec),
                        dwell_sec, dwell_sec')
            /\ Provided(control.simulation_speed,
                        IF ValueOf(control.simulation_speed) < MinSpeedTenths
                        THEN MinSpeedTenths
                        ELSE IF ValueOf(control.simulation_speed) > MaxSpeedTenths
                        THEN MaxSpeedTenths
                        ELSE ValueOf(control.simulation_speed),
                        simulation_speed, simulation_speed')
            /\ UNCHANGED <<trains, blocks, sim_time, tick_count, status,
                           completed, completion_emitted, idle_ticks,
                           event_counter, active_plan, holds_index>>]_vars

\* update_parameters was given a speed above 10.0 and no headway while the
\* run was under way with a headway set by an earlier call
C30_Witness ==
    /\ last_op = "update_parameters"
    /\ ~IsSet(returned.arg.headway_sec)
    /\ IsSet(returned.arg.simulation_speed)
    /\ ValueOf(returned.arg.simulation_speed) > MaxSpeedTenths
    /\ simulation_speed = MaxSpeedTenths
    /\ headway_sec = 30
    /\ tick_count > 0
    /\ status = "RUNNING"


\* the place of train t in the insertion order of self.trains
OrderOf(t) == CHOOSE i \in 1..Len(TrainOrder) : TrainOrder[i] = t

\* C31: the events one step() returns are in train insertion order; a train
\* that moved has its TRAIN_DEPARTED (from the block it left), immediately
\* followed by its TRAIN_ARRIVED exactly when the block entered is a station,
\* and a train that did not move has no event; SIMULATION_COMPLETED, when
\* present, is the last element.
C31_EventOrder ==
    [][last_op' = "step" =>
        LET evs == returned'.events
            of(t) == {i \in 1..Len(evs) : evs[i].train_id = t}
        IN  /\ \A i, j \in 1..Len(evs) :
                  (i < j /\ evs[i].event_kind # "SIMULATION_COMPLETED") =>
                      /\ evs[j].event_kind # "SIMULATION_COMPLETED" =>
                            OrderOf(evs[i].train_id) <= OrderOf(evs[j].train_id)
            /\ \A i \in 1..Len(evs) :
                  evs[i].event_kind = "SIMULATION_COMPLETED" => i = Len(evs)
            /\ \A t \in TrainIds :
                  IF t \in MovedTrains(trains, trains')
                  THEN \E i \in of(t) :
                         /\ evs[i].event_kind = "TRAIN_DEPARTED"
                         /\ evs[i].block_id = trains[t].current_block
                         /\ IF IsStation(trains'[t].current_block)
                            THEN /\ of(t) = {i, i + 1}
                                 /\ evs[i + 1].event_kind = "TRAIN_ARRIVED"
                                 /\ evs[i + 1].block_id = trains'[t].current_block
                            ELSE of(t) = {i}
                  ELSE of(t) = {}]_vars

\* a step() returned the departure and arrival of one train followed by the
\* departure of a later train into a block that is not a station
C31_Witness ==
    /\ last_op = "step"
    /\ \E i \in 1..Len(returned.events) :
          /\ i + 2 <= Len(returned.events)
          /\ returned.events[i].event_kind = "TRAIN_DEPARTED"
          /\ returned.events[i + 1].event_kind = "TRAIN_ARRIVED"
          /\ returned.events[i + 2].event_kind = "TRAIN_DEPARTED"
          /\ returned.events[i + 2].train_id # returned.events[i].train_id
          /\ ~IsStation(returned.events[i + 2].block_id)


\* the blocks taken by the trains placed before t
TakenBefore(t) ==
    {trains[TrainOrder[k]].current_block : k \in 1..(OrderOf(t) - 1)}

\* the indices of t's route whose block no earlier train has taken
FreeFor(t) == {i \in 0..LastIndex(t) : RouteAt(t, i) \notin TakenBefore(t)}

\* C32: when reset() has returned, every train stands at the first index of
\* its route whose block was not taken by a train placed before it (index 0
\* if there is none), that block is occupied by it, and route_index,
\* current_block and next_block agree with that index.
C32_StartPlacement ==
    (last_op = "reset" /\ returned.ok) =>
        \A t \in TrainIds :
            LET idx == trains[t].route_index
            IN  /\ IF FreeFor(t) = {} THEN idx = 0
                   ELSE idx \in FreeFor(t) /\ \A j \in FreeFor(t) : idx <= j
                /\ trains[t].current_block = RouteAt(t, idx)
                /\ trains[t].next_block =
                        IF idx < LastIndex(t) THEN RouteAt(t, idx + 1) ELSE None
                /\ FreeFor(t) # {} => blocks[RouteAt(t, idx)].occupied_by = t

\* a reset() called on an engine that had run placed T3 and T8 past the head
\* of their routes and T6 on its last block
C32_Witness ==
    /\ last_op = "reset"
    /\ ops > 1
    /\ status = "IDLE"
    /\ trains["T3"].route_index = 1
    /\ trains["T8"].route_index = 2
    /\ trains["T6"].next_block = None
    /\ blocks["B5"].occupied_by = "T8"


\* block b had an occupant when the tick from the unprimed to the primed
\* state processed train t: a train that did not leave it before t's turn,
\* or one that entered it before t's turn
OccupiedAtTurn(t, b) ==
    \/ \E u \in TrainIds :
          /\ trains[u].current_block = b
          /\ blocks[b].occupied_by = u
          /\ (u \notin MovedTrains(trains, trains') \/ OrderOf(u) > OrderOf(t))
    \/ \E u \in MovedTrains(trains, trains') :
          /\ trains'[u].current_block = b
          /\ OrderOf(u) < OrderOf(t)

\* C33: with headway_sec = 0 a tick moves every train that has finished its
\* block, is not at the end of its route, is not held by the plan and whose
\* next block is without occupant and without issue at its turn, whatever
\* the block's last_exit_time is.
C33_ZeroHeadwayNeverGates ==
    [][(/\ last_op' = "step"
        /\ StepAdvances(status, completed)
        /\ headway_sec = 0)
        => \A t \in TrainIds :
              LET nb == trains[t].next_block
              IN  (/\ sim_time' >= trains[t].will_exit_at
                   /\ trains[t].route_index < LastIndex(t)
                   /\ ~HeldByPlan(active_plan, holds_index, t, nb, sim_time')
                   /\ blocks[nb].issue = None
                   /\ ~OccupiedAtTurn(t, nb))
                  => /\ t \in MovedTrains(trains, trains')
                     /\ trains'[t].current_block = nb]_vars

\* with headway_sec = 0 a train has just entered a block that another train
\* left less than the topology's headway ago
C33_Witness ==
    /\ last_op = "step"
    /\ headway_sec = 0
    /\ \E t \in TrainIds :
          LET b == blocks[trains[t].current_block]
          IN  /\ trains[t].entered_block_at = sim_time
              /\ b.occupied_by = t
              /\ IsSet(b.last_exit_time)
              /\ sim_time - ValueOf(b.last_exit_time) < Sec(TopologyHeadwaySec)


\* half seconds rounded up to whole seconds
CeilSec(h) == (h + 1) \div 2

\* C34: after a step() that ticked, a train on a station block has
\* dwell_remaining = ceil(will_exit_at - sim_time) seconds while
\* sim_time < will_exit_at, and 0 from will_exit_at on.
C34_DwellRemainingCeil ==
    (last_op = "step" /\ tick_count > 0) =>
        \A t \in TrainIds :
            IsStation(trains[t].current_block) =>
                trains[t].dwell_remaining =
                    IF sim_time < trains[t].will_exit_at
                    THEN CeilSec(trains[t].will_exit_at - sim_time)
                    ELSE 0


\* C35: every train has 0 <= route_index <= |route| - 1, stands on
\* route[route_index], has next_block = route[route_index + 1] before the
\* last index and no next_block at the last index, and
\* will_exit_at >= entered_block_at.
C35_TrainConsistent ==
    \A t \in DOMAIN trains :
        /\ trains[t].route_index \in 0..LastIndex(t)
        /\ trains[t].current_block = RouteAt(t, trains[t].route_index)
        /\ IF trains[t].route_index < LastIndex(t)
           THEN trains[t].next_block = RouteAt(t, trains[t].route_index + 1)
           ELSE trains[t].next_block = None
        /\ trains[t].will_exit_at >= trains[t].entered_block_at

\* during a run a train stands on the last block of its route, another has
\* moved to the third block of its route or beyond and has blocks ahead, and
\* a delay was injected
C35_Witness ==
    /\ tick_count > 0
    /\ last_op = "inject_delay"
    /\ returned.ok
    /\ \E t, u \in TrainIds :
          /\ trains[t].route_index = LastIndex(t)
          /\ trains[t].next_block = None
          /\ trains[u].entered_block_at > 0
          /\ trains[u].route_index >= 2
          /\ trains[u].route_index < LastIndex(u)


\* C36: when step() returns SIMULATION_COMPLETED and the status becomes
\* COMPLETED, every train is at the last index of its route and is neither
\* traversing nor dwelling.
C36_CompletedMeansArrived ==
    [][(/\ last_op' = "step"
        /\ status' = "COMPLETED"
        /\ \E i \in 1..Len(returned'.events) :
              returned'.events[i].event_kind = "SIMULATION_COMPLETED")
        => \A t \in TrainIds :
              /\ trains'[t].route_index = LastIndex(t)
              /\ sim_time' >= trains'[t].will_exit_at
              /\ trains'[t].dwell_remaining = 0]_vars


\* the loop tasks that are not done
LiveLoops == {t \in DOMAIN aio.tasks : Alive(aio, t)}

\* C37: at most one simulation_loop task is alive, app.state.sim_task refers
\* to it, and sim_task is None or a finished task when none is alive; when
\* the handler of /reset has reset the engine no loop task is alive.
C37_SingleLoopTask ==
    /\ Cardinality(LiveLoops) <= 1
    /\ \A t \in LiveLoops : aio.sim_task = t
    /\ last_op = "POST /reset" => LiveLoops = {}

\* C38: after apply_plan at sim_time T every directive of the plan whose
\* offset is an integer has its key in holds_index with a deadline not
\* earlier than T + its offset, also when several directives of the list
\* share a (train_id, block_id).
C38_NoDirectiveWeakened ==
    [][last_op' = "apply_plan" =>
          LET holds == returned'.arg
          IN  \A i \in 1..Len(holds) :
                 ~OffsetRaises(holds[i]) =>
                    /\ KeyOf(holds[i]) \in DOMAIN holds_index'
                    /\ holds_index'[KeyOf(holds[i])] >=
                          sim_time + Sec(OffsetOf(holds[i]))]_vars


\* C39: occupied_by of a block is None or the id of a train whose
\* current_block is that block, the current_block of a train is never marked
\* unoccupied, and a last_exit_time that is set is not after sim_time.
C39_OccupancyConsistent ==
    /\ \A b \in DOMAIN blocks :
          \/ blocks[b].occupied_by = None
          \/ /\ blocks[b].occupied_by \in TrainIds
             /\ trains[blocks[b].occupied_by].current_block = b
    /\ \A t \in TrainIds : blocks[trains[t].current_block].occupied_by # None
    /\ \A b \in DOMAIN blocks :
          IsSet(blocks[b].last_exit_time) =>
             ValueOf(blocks[b].last_exit_time) <= sim_time

\* after a step a block left earlier is occupied again by another train,
\* and a block left in an earlier tick is empty
C39_Witness ==
    /\ last_op = "step"
    /\ \E b \in DOMAIN blocks :
          /\ IsSet(blocks[b].last_exit_time)
          /\ blocks[b].occupied_by \in TrainIds
          /\ trains[blocks[b].occupied_by].entered_block_at >
                ValueOf(blocks[b].last_exit_time)
    /\ \E b \in DOMAIN blocks :
          /\ IsSet(blocks[b].last_exit_time)
          /\ ValueOf(blocks[b].last_exit_time) < sim_time
          /\ blocks[b].occupied_by = None


\* C40: between calls the flags completed and _completion_emitted and the
\* test status = COMPLETED have the same truth value; the engine is never
\* RUNNING or IDLE with completed set.
C40_CompletionFlagsAgree ==
    /\ completed <=> completion_emitted
    /\ completed <=> (status = "COMPLETED")

\* a completed run: a loop task read completed and left its loop, and
\* POST /start was then refused on the status
C40_Witness ==
    /\ completed
    /\ completion_emitted
    /\ status = "COMPLETED"
    /\ last_op = "POST /start"
    /\ http_code = 409
    /\ \E t \in DOMAIN aio.tasks : aio.tasks[t].pc \in {"final", "done"}
    /\ LiveLoops \subseteq {t \in DOMAIN aio.tasks : aio.tasks[t].pc = "final"}


====
